---- MODULE Spec2Model ----
(***************************************************************************)
(* buildctl-dockerfile: translation of a docker-build style command line   *)
(* into a `buildctl build` invocation (bin/buildctl-dockerfile).           *)
(*                                                                         *)
(* Strings are sequences of one-character strings, so that startsWith,     *)
(* includes, substring and concatenation are computed character by         *)
(* character as the script computes them.  An argument list is a sequence  *)
(* of such strings.                                                        *)
(***************************************************************************)
EXTENDS Integers, Sequences, FiniteSets, TLC

VARIABLES
  argv,          \* process.argv.slice(2)
  scriptName,    \* path.basename(process.argv[1])
  pc,            \* position of the main script
  options,       \* result of parseArgs
  buildctlArgs,  \* result of buildBuildctlArgs
  stdout,        \* lines written with console.log (the dry-run line)
  stderr,        \* messages written with console.error
  helpShown,     \* number of calls of showHelp
  spawned,       \* argument lists handed to spawnSync
  exitCode,      \* argument of process.exit; 0 while running
  result,        \* what spawnSync returned, once spawned is not empty
  host,          \* process.platform and process.arch (os.platform(), os.arch())
  ipc,           \* position of scripts/postinstall.js
  tree,          \* what is at the paths postinstall.js reads and writes
  todo,          \* bin entries of package.json still to be linked
  ended          \* the tree and the outcome at the end of each postinstall run

vars == <<argv, scriptName, pc, options, buildctlArgs, stdout, stderr,
          helpShown, spawned, exitCode, result, host, ipc, tree, todo, ended>>

\* the variables of the wrapper script and those of the postinstall script
install == <<ipc, tree, todo, ended>>

----------------------------------------------------------------------------
(* String literals of the script *)

s_dashdash == <<"-","-">>
s_h == <<"-","h">>
s_help == <<"-","-","h","e","l","p">>
s_dry_run == <<"-","-","d","r","y","-","r","u","n">>
s_push == <<"-","-","p","u","s","h">>
s_f == <<"-","f">>
s_file == <<"-","-","f","i","l","e">>
s_build_arg == <<"-","-","b","u","i","l","d","-","a","r","g">>
s_t == <<"-","t">>
s_tag == <<"-","-","t","a","g">>
s_dash == <<"-">>
s_eq == <<"=">>
s_slash == <<"/">>
s_dot == <<".">>
s_dotdot == <<".",".">>
s_Dockerfile == <<"D","o","c","k","e","r","f","i","l","e">>
s_build == <<"b","u","i","l","d">>
s_frontend == <<"-","-","f","r","o","n","t","e","n","d">>
s_dockerfile_v0 == <<"d","o","c","k","e","r","f","i","l","e",".","v","0">>
s_local == <<"-","-","l","o","c","a","l">>
s_context_eq == <<"c","o","n","t","e","x","t","=">>
s_dockerfile_eq == <<"d","o","c","k","e","r","f","i","l","e","=">>
s_opt == <<"-","-","o","p","t">>
s_filename_eq == <<"f","i","l","e","n","a","m","e","=">>
s_build_arg_colon == <<"b","u","i","l","d","-","a","r","g",":">>
s_output == <<"-","-","o","u","t","p","u","t">>
s_output_eq == <<"-","-","o","u","t","p","u","t","=">>
s_name_eq == <<"n","a","m","e","=">>
s_push_eq == <<"p","u","s","h","=">>
s_comma_push_true == <<",","p","u","s","h","=","t","r","u","e">>
s_type_image_name == <<"t","y","p","e","=","i","m","a","g","e",",","n","a","m","e","=">>
s_comma_push_eq == <<",","p","u","s","h","=">>
s_true == <<"t","r","u","e">>
s_false == <<"f","a","l","s","e">>
s_type_docker == <<"t","y","p","e","=","d","o","c","k","e","r">>
s_buildctl_sp == <<"b","u","i","l","d","c","t","l"," ">>
s_space == <<" ">>
s_dockerfile == <<"d","o","c","k","e","r","f","i","l","e">>
s_d == <<"d">>
s_buildctl_d == <<"b","u","i","l","d","c","t","l","-","d">>

----------------------------------------------------------------------------
(* Bounds of the model *)

\* longest command line of FlatInputs
MaxFlat == 3

\* most passthrough items of OutputInputs
MaxItems == 2

\* most --build-arg options of ArgsInputs
MaxBuildArgs == 2

\* largest exit status of buildctl
MaxStatus == 2

----------------------------------------------------------------------------
(* Words of the command lines *)

a_app == <<"a","p","p">>
a_c == <<"c">>
a_abs_c == <<"/","w","/","c">>
a_n == <<"n">>
a_x == <<"x">>
a_dd == <<"d","d">>
a_ctx_file == <<"c","/","m","y",".","d","f">>
a_f_custom == <<"c","/","m","y",".","d","f">>
a_f_sub == <<"s","/","D","o","c","k","e","r","f","i","l","e">>
a_f_lower == <<"/","w","/","c","/","d","o","c","k","e","r","f","i","l","e">>
a_f_missing == <<"n","o","f","i","l","e">>
a_f_dotdot == <<"/","w","/","c","/",".",".","/","c","/","m","y",".","d","f">>
a_f_dotdot_missing == <<"/","w","/","c","/",".",".","/","n","o","f","i","l","e">>
a_A1 == <<"A","=","1">>
a_B2 == <<"B","=","2">>
a_NOEQ == <<"N","O","E","Q">>
a_eqV == <<"=","V">>
a_plain == <<"t","y","p","e","=","o","c","i">>
a_named == <<"t","y","p","e","=","o","c","i",",","n","a","m","e","=","r">>
a_pushed == <<"t","y","p","e","=","o","c","i",",","p","u","s","h","=","f","a","l","s","e">>
a_no_cache == <<"-","-","n","o","-","c","a","c","h","e">>
a_empty == <<>>
a_myapp_latest == <<"m","y","a","p","p",":","l","a","t","e","s","t">>
a_registry_override == <<"t","y","p","e","=","r","e","g","i","s","t","r","y",",","n","a","m","e","=","o","v","e","r","r","i","d","e",".","c","o","m","/","i","m","a","g","e",":","v","1",",","p","u","s","h","=","t","r","u","e">>
n_buildctl_dockerfile == <<"b","u","i","l","d","c","t","l","-","d","o","c","k","e","r","f","i","l","e">>
n_buildctl_d == <<"b","u","i","l","d","c","t","l","-","d">>
n_buildctl == <<"b","u","i","l","d","c","t","l">>

----------------------------------------------------------------------------
(* JavaScript string and array primitives *)

\* s.startsWith(p)
StartsWith(s, p) ==
  /\ Len(p) <= Len(s)
  /\ SubSeq(s, 1, Len(p)) = p

\* s.includes(sub)
Includes(s, sub) ==
  \E i \in 1..(Len(s) - Len(sub) + 1) : SubSeq(s, i, i + Len(sub) - 1) = sub

\* s.substring(n), n counted from 0
Substring(s, n) == SubSeq(s, n + 1, Len(s))

\* a.indexOf(x), counted from 0, -1 when absent
IndexOf(a, x) ==
  IF \E i \in 1..Len(a) : a[i] = x
  THEN (CHOOSE i \in 1..Len(a) : a[i] = x /\ \A j \in 1..(i - 1) : a[j] # x) - 1
  ELSE -1

\* a.slice(from), from counted from 0
SliceFrom(a, from) == SubSeq(a, from + 1, Len(a))

\* a.slice(0, to), to counted from 0 and exclusive
SliceTo(a, to) == SubSeq(a, 1, to)

RECURSIVE Join(_, _)
\* a.join(sep)
Join(a, sep) ==
  IF Len(a) = 0 THEN <<>>
  ELSE IF Len(a) = 1 THEN a[1]
  ELSE a[1] \o sep \o Join(Tail(a), sep)

\* null and a string value of an option field
Null == [isNull |-> TRUE, val |-> <<>>]
Some(s) == [isNull |-> FALSE, val |-> s]

\* JavaScript truthiness of a field that is null or a string
Truthy(x) == ~x.isNull /\ x.val # <<>>

----------------------------------------------------------------------------
(* The process environment: working directory and file system *)

\* process.cwd()
Cwd == <<"/","w">>

\* directories and files that exist
Dirs ==
  { <<"/">>, <<"/","w">>, <<"/","w","/","c">>, <<"/","w","/","n">>,
    <<"/","w","/","s">> }
Files ==
  { <<"/","w","/","D","o","c","k","e","r","f","i","l","e">>,
    <<"/","w","/","c","/","D","o","c","k","e","r","f","i","l","e">>,
    <<"/","w","/","c","/","m","y",".","d","f">>,
    <<"/","w","/","c","/","d","o","c","k","e","r","f","i","l","e">>,
    <<"/","w","/","s","/","D","o","c","k","e","r","f","i","l","e">> }

\* path.isAbsolute(p)
pathIsAbsolute(p) == Len(p) > 0 /\ p[1] = "/"

RECURSIVE SplitSlash(_, _, _)
\* p.split('/'): cur is the segment being read, acc the segments read
SplitSlash(p, cur, acc) ==
  IF Len(p) = 0 THEN Append(acc, cur)
  ELSE IF Head(p) = "/" THEN SplitSlash(Tail(p), <<>>, Append(acc, cur))
  ELSE SplitSlash(Tail(p), Append(cur, Head(p)), acc)

RECURSIVE NormalizeSegments(_, _)
\* drops empty and "." segments, and lets ".." remove the segment before it
NormalizeSegments(segs, acc) ==
  IF Len(segs) = 0 THEN acc
  ELSE LET seg == Head(segs) IN
    IF seg = <<>> \/ seg = s_dot THEN NormalizeSegments(Tail(segs), acc)
    ELSE IF seg = s_dotdot
      THEN NormalizeSegments(Tail(segs),
             IF Len(acc) = 0 THEN acc ELSE SubSeq(acc, 1, Len(acc) - 1))
    ELSE NormalizeSegments(Tail(segs), Append(acc, seg))

\* path.resolve(p): absolute, normalized, relative paths taken from Cwd
pathResolve(p) ==
  LET full == IF pathIsAbsolute(p) THEN p ELSE Cwd \o s_slash \o p
  IN  s_slash \o Join(NormalizeSegments(SplitSlash(full, <<>>, <<>>), <<>>), s_slash)

\* path.resolve(a, b)
pathResolve2(a, b) ==
  IF pathIsAbsolute(b) THEN pathResolve(b) ELSE pathResolve(a \o s_slash \o b)

\* the part of p before its trailing slashes
StripTrailingSlashes(p) ==
  LET keep == { i \in 1..Len(p) : p[i] # "/" }
  IN  IF keep = {} THEN <<>>
      ELSE SubSeq(p, 1, CHOOSE i \in keep : \A j \in keep : j <= i)

\* path.dirname(p)
pathDirname(p) ==
  IF Len(p) = 0 THEN s_dot
  ELSE LET ends == { i \in 2..Len(p) :
                       p[i] = "/" /\ \E j \in (i + 1)..Len(p) : p[j] # "/" }
       IN  IF ends = {} THEN (IF p[1] = "/" THEN s_slash ELSE s_dot)
           ELSE LET end == CHOOSE i \in ends : \A j \in ends : j <= i
                IN  IF p[1] = "/" /\ end = 2 THEN <<"/","/">>
                    ELSE SubSeq(p, 1, end - 1)

\* path.basename(p)
pathBasename(p) ==
  LET q == StripTrailingSlashes(p)
      slashes == { i \in 1..Len(q) : q[i] = "/" }
  IN  IF slashes = {} THEN q
      ELSE SubSeq(q, (CHOOSE i \in slashes : \A j \in slashes : j <= i) + 1, Len(q))

\* fs.existsSync(p)
existsSync(p) ==
  /\ Len(p) > 0
  /\ pathResolve(p) \in Dirs \cup Files

----------------------------------------------------------------------------
(* Results and error messages *)

\* new Error(message): the template text and the interpolated values
Error(text, args) == [text |-> text, args |-> args]

\* a function that returned v
Return(v) == [ok |-> TRUE, value |-> v]

\* a function that threw e
Throw(e) == [ok |-> FALSE, error |-> e]

\* console.error(`Error: ${error.message}`)
ErrorLine(e) == [prefix |-> "Error: ", text |-> e.text, args |-> e.args]

----------------------------------------------------------------------------
(* Platforms: bin/buildctl-dockerfile, scripts/postinstall.js, scripts/publish.go *)

\* names of operating systems and processor architectures
p_win32 == <<"w","i","n","3","2">>
p_darwin == <<"d","a","r","w","i","n">>
p_linux == <<"l","i","n","u","x">>
p_freebsd == <<"f","r","e","e","b","s","d">>
p_windows == <<"w","i","n","d","o","w","s">>
c_x64 == <<"x","6","4">>
c_arm64 == <<"a","r","m","6","4">>
c_arm == <<"a","r","m">>
c_ppc64 == <<"p","p","c","6","4">>
c_riscv64 == <<"r","i","s","c","v","6","4">>
c_s390x == <<"s","3","9","0","x">>
c_ia32 == <<"i","a","3","2">>
c_amd64 == <<"a","m","d","6","4">>
c_arm_v7 == <<"a","r","m","-","v","7">>
c_ppc64le == <<"p","p","c","6","4","l","e">>
s_buildctl_dash == <<"b","u","i","l","d","c","t","l","-">>
s_bin_buildctl == <<"b","i","n","/","b","u","i","l","d","c","t","l">>
s_dot_exe == <<".","e","x","e">>

\* the table of the wrapper script: platform, arch, path of the binary
PLATFORMS ==
  { [platform |-> p_win32, arch |-> c_x64,
      binPath |-> <<"b","u","i","l","d","c","t","l","-","w","i","n","3","2","-","x","6","4","/","b","i","n","/","b","u","i","l","d","c","t","l",".","e","x","e">>],
    [platform |-> p_win32, arch |-> c_arm64,
      binPath |-> <<"b","u","i","l","d","c","t","l","-","w","i","n","3","2","-","a","r","m","6","4","/","b","i","n","/","b","u","i","l","d","c","t","l",".","e","x","e">>],
    [platform |-> p_darwin, arch |-> c_x64,
      binPath |-> <<"b","u","i","l","d","c","t","l","-","d","a","r","w","i","n","-","x","6","4","/","b","i","n","/","b","u","i","l","d","c","t","l">>],
    [platform |-> p_darwin, arch |-> c_arm64,
      binPath |-> <<"b","u","i","l","d","c","t","l","-","d","a","r","w","i","n","-","a","r","m","6","4","/","b","i","n","/","b","u","i","l","d","c","t","l">>],
    [platform |-> p_linux, arch |-> c_x64,
      binPath |-> <<"b","u","i","l","d","c","t","l","-","l","i","n","u","x","-","x","6","4","/","b","i","n","/","b","u","i","l","d","c","t","l">>],
    [platform |-> p_linux, arch |-> c_arm64,
      binPath |-> <<"b","u","i","l","d","c","t","l","-","l","i","n","u","x","-","a","r","m","6","4","/","b","i","n","/","b","u","i","l","d","c","t","l">>],
    [platform |-> p_linux, arch |-> c_arm,
      binPath |-> <<"b","u","i","l","d","c","t","l","-","l","i","n","u","x","-","a","r","m","/","b","i","n","/","b","u","i","l","d","c","t","l">>],
    [platform |-> p_linux, arch |-> c_ppc64,
      binPath |-> <<"b","u","i","l","d","c","t","l","-","l","i","n","u","x","-","p","p","c","6","4","l","e","/","b","i","n","/","b","u","i","l","d","c","t","l">>],
    [platform |-> p_linux, arch |-> c_riscv64,
      binPath |-> <<"b","u","i","l","d","c","t","l","-","l","i","n","u","x","-","r","i","s","c","v","6","4","/","b","i","n","/","b","u","i","l","d","c","t","l">>],
    [platform |-> p_linux, arch |-> c_s390x,
      binPath |-> <<"b","u","i","l","d","c","t","l","-","l","i","n","u","x","-","s","3","9","0","x","/","b","i","n","/","b","u","i","l","d","c","t","l">>] }

\* PLATFORMS?.[platform]?.[arch]
binPathOf(h) ==
  LET rows == { e \in PLATFORMS : e.platform = h.platform /\ e.arch = h.arch }
  IN  IF rows = {} THEN Null ELSE Some((CHOOSE e \in rows : TRUE).binPath)

\* the first component of a relative path: the package a binary path lies in
packageOf(binPath) == SubSeq(binPath, 1, IndexOf(binPath, "/"))

\* platformMap and archMap of postinstall.js
platformMap == { p_darwin, p_linux, p_win32 }
archMap == { c_x64, c_arm64, c_arm, c_ppc64, c_riscv64, c_s390x }

\* getPlatformPackageName of postinstall.js
getPlatformPackageName(h) ==
  IF h.platform \notin platformMap \/ h.arch \notin archMap
  THEN Throw(Error("Unsupported platform: {0}-{1}", <<h.platform, h.arch>>))
  ELSE Return(s_buildctl_dash \o h.platform \o s_dash \o h.arch)

\* publish.go: NewOs, NewCPU, OS.String and CPU.String
NewOs(os) ==
  CASE os = p_darwin -> "Darwin" [] os = p_linux -> "Linux" [] os = p_windows -> "Win32"
NewCPU(arch) ==
  CASE arch = c_amd64 -> "X64" [] arch = c_arm64 -> "Arm64" [] arch = c_arm_v7 -> "ArmV7"
    [] arch = c_ppc64le -> "Ppc64le" [] arch = c_riscv64 -> "Riscv64"
    [] arch = c_s390x -> "S390x"
OSString(o) ==
  CASE o = "Darwin" -> p_darwin [] o = "Linux" -> p_linux [] o = "Win32" -> p_win32
CPUString(c) ==
  CASE c = "X64" -> c_x64 [] c = "Arm64" -> c_arm64 [] c = "ArmV7" -> c_arm
    [] c = "Ppc64le" -> c_ppc64 [] c = "Riscv64" -> c_riscv64 [] c = "S390x" -> c_s390x

\* the release assets of buildkit: operating system and architecture
ReleaseAssets ==
  { <<p_darwin, c_arm64>>, <<p_darwin, c_amd64>>,
    <<p_linux, c_amd64>>, <<p_linux, c_arm64>>, <<p_linux, c_arm_v7>>,
    <<p_linux, c_ppc64le>>, <<p_linux, c_riscv64>>, <<p_linux, c_s390x>>,
    <<p_windows, c_amd64>>, <<p_windows, c_arm64>> }

\* publish.go: the package written for a release asset
BinPackage(asset) ==
  LET o == NewOs(asset[1])
      cpu == NewCPU(asset[2])
      exename == IF OSString(o) = p_win32 THEN s_bin_buildctl \o s_dot_exe
                 ELSE s_bin_buildctl
  IN  [ name |-> s_buildctl_dash \o OSString(o) \o s_dash \o CPUString(cpu),
        bin |-> exename, os |-> OSString(o), cpu |-> CPUString(cpu) ]

\* the packages publish.go writes
PublishedPackages == { BinPackage(asset) : asset \in ReleaseAssets }

----------------------------------------------------------------------------
(* parseArgs *)

InitialOptions ==
  [ dockerfile |-> Null, buildArgs |-> <<>>, tag |-> Null, context |-> Null,
    help |-> FALSE, dryRun |-> FALSE, push |-> FALSE, passthroughArgs |-> <<>> ]

\* mutant of dashDashIndex: args.lastIndexOf('--')
dashDashIndex_Last(args) ==
  IF \E i \in 1..Len(args) : args[i] = s_dashdash
  THEN (CHOOSE i \in 1..Len(args) :
          args[i] = s_dashdash /\ \A j \in (i + 1)..Len(args) : args[j] # s_dashdash) - 1
  ELSE -1

\* args.indexOf('--')
dashDashIndex(args) == IndexOf(args, s_dashdash)

\* the arguments before the separator
mainArgsOf(args) ==
  IF dashDashIndex(args) # -1 THEN SliceTo(args, dashDashIndex(args)) ELSE args

\* the arguments after the separator
passthroughArgsOf(args) ==
  IF dashDashIndex(args) # -1 THEN SliceFrom(args, dashDashIndex(args) + 1) ELSE <<>>

\* mutant of valueMissing: a following token that starts with - is no value
valueMissing_DashIsNoValue(mainArgs, i) ==
  \/ i + 1 > Len(mainArgs)
  \/ StartsWith(mainArgs[i + 1], s_dash)

\* i + 1 >= mainArgs.length: the flag at i is the last argument; i counts from 1
valueMissing(mainArgs, i) == i + 1 > Len(mainArgs)

RECURSIVE parseLoop(_, _, _)
\* the for loop of parseArgs; i counts from 1
parseLoop(mainArgs, i, o) ==
  IF i > Len(mainArgs) THEN Return(o)
  ELSE LET arg == mainArgs[i] IN
    IF arg = s_h \/ arg = s_help
      THEN parseLoop(mainArgs, i + 1, [o EXCEPT !.help = TRUE])
    ELSE IF arg = s_dry_run
      THEN parseLoop(mainArgs, i + 1, [o EXCEPT !.dryRun = TRUE])
    ELSE IF arg = s_push
      THEN parseLoop(mainArgs, i + 1, [o EXCEPT !.push = TRUE])
    ELSE IF arg = s_f \/ arg = s_file
      THEN IF valueMissing(mainArgs, i)
           THEN Throw(Error("Option {0} requires a value", <<arg>>))
           ELSE parseLoop(mainArgs, i + 2,
                          [o EXCEPT !.dockerfile = Some(mainArgs[i + 1])])
    ELSE IF arg = s_build_arg
      THEN IF valueMissing(mainArgs, i)
           THEN Throw(Error("Option {0} requires a value", <<arg>>))
           ELSE parseLoop(mainArgs, i + 2,
                          [o EXCEPT !.buildArgs = Append(@, mainArgs[i + 1])])
    ELSE IF arg = s_t \/ arg = s_tag
      THEN IF valueMissing(mainArgs, i)
           THEN Throw(Error("Option {0} requires a value", <<arg>>))
           ELSE parseLoop(mainArgs, i + 2,
                          [o EXCEPT !.tag = Some(mainArgs[i + 1])])
    ELSE IF ~StartsWith(arg, s_dash)
      THEN IF Truthy(o.context)
           THEN Throw(Error("Multiple context paths specified: {0} and {1}",
                            <<o.context.val, arg>>))
           ELSE parseLoop(mainArgs, i + 1, [o EXCEPT !.context = Some(arg)])
    ELSE Throw(Error("Unknown option: {0}", <<arg>>))

parseArgs(args) ==
  parseLoop(mainArgsOf(args), 1,
            [InitialOptions EXCEPT !.passthroughArgs = passthroughArgsOf(args)])

----------------------------------------------------------------------------
(* validateDockerfile *)

\* mutant of fullDockerfilePath: a relative path is taken from the context
fullDockerfilePath_FromContext(contextPath, dockerfilePath) ==
  IF Truthy(dockerfilePath)
  THEN IF pathIsAbsolute(dockerfilePath.val) THEN dockerfilePath.val
       ELSE pathResolve2(contextPath, dockerfilePath.val)
  ELSE pathResolve2(contextPath, s_Dockerfile)

\* the path the Dockerfile is looked up at
fullDockerfilePath(contextPath, dockerfilePath) ==
  IF Truthy(dockerfilePath)
  THEN IF pathIsAbsolute(dockerfilePath.val) THEN dockerfilePath.val
       ELSE pathResolve(dockerfilePath.val)
  ELSE pathResolve2(contextPath, s_Dockerfile)

validateDockerfile(contextPath, dockerfilePath) ==
  LET full == fullDockerfilePath(contextPath, dockerfilePath)
  IN  IF ~existsSync(full)
      THEN Throw(Error("Dockerfile not found: {0}", <<full>>))
      ELSE Return(full)

----------------------------------------------------------------------------
(* buildBuildctlArgs *)

\* the first seven tokens
baseArgs(contextPath, dockerfileDir) ==
  << s_build, s_frontend, s_dockerfile_v0,
     s_local, s_context_eq \o contextPath,
     s_local, s_dockerfile_eq \o dockerfileDir >>

\* mutant of filenameOpt: the name is compared with 'dockerfile'
filenameOpt_LowerCase(dockerfilePath) ==
  LET dockerfileName == pathBasename(dockerfilePath)
  IN  IF dockerfileName # s_dockerfile
      THEN <<s_opt, s_filename_eq \o dockerfileName>>
      ELSE <<>>

\* the filename option, added if the Dockerfile is not named Dockerfile
filenameOpt(dockerfilePath) ==
  LET dockerfileName == pathBasename(dockerfilePath)
  IN  IF dockerfileName # s_Dockerfile
      THEN <<s_opt, s_filename_eq \o dockerfileName>>
      ELSE <<>>

RECURSIVE buildArgOpts_Prepends(_, _)
\* mutant of buildArgOpts: args.unshift instead of args.push
buildArgOpts_Prepends(buildArgs, acc) ==
  IF Len(buildArgs) = 0 THEN Return(acc)
  ELSE LET buildArg == Head(buildArgs) IN
    IF ~Includes(buildArg, s_eq)
    THEN Throw(Error("Invalid build-arg format: {0}. Expected KEY=VALUE", <<buildArg>>))
    ELSE buildArgOpts_Prepends(Tail(buildArgs),
                               <<s_opt, s_build_arg_colon \o buildArg>> \o acc)

RECURSIVE buildArgOpts(_, _)
\* the loop over options.buildArgs: throws at the first entry without '='
buildArgOpts(buildArgs, acc) ==
  IF Len(buildArgs) = 0 THEN Return(acc)
  ELSE LET buildArg == Head(buildArgs) IN
    IF ~Includes(buildArg, s_eq)
    THEN Throw(Error("Invalid build-arg format: {0}. Expected KEY=VALUE", <<buildArg>>))
    ELSE buildArgOpts(Tail(buildArgs),
                      acc \o <<s_opt, s_build_arg_colon \o buildArg>>)

hasOutputInPassthrough(passthroughArgs) ==
  \E i \in 1..Len(passthroughArgs) :
     \/ passthroughArgs[i] = s_output
     \/ StartsWith(passthroughArgs[i], s_output_eq)

\* mutant of pushWithoutTarget: options.tag instead of !options.tag
pushWithoutTarget_TagNotNegated(o) ==
  o.push /\ Truthy(o.tag) /\ ~hasOutputInPassthrough(o.passthroughArgs)

\* --push with neither a tag nor a passthrough output
pushWithoutTarget(o) ==
  o.push /\ ~Truthy(o.tag) /\ ~hasOutputInPassthrough(o.passthroughArgs)

outputWithName(passthroughArgs) ==
  \E i \in 1..Len(passthroughArgs) :
    LET arg == passthroughArgs[i] IN
    IF StartsWith(arg, s_output_eq) THEN Includes(arg, s_name_eq)
    ELSE LET outputIndex == IndexOf(passthroughArgs, s_output) IN
         IF outputIndex # -1 /\ outputIndex < Len(passthroughArgs) - 1
         THEN Includes(passthroughArgs[outputIndex + 2], s_name_eq)
         ELSE FALSE

outputWithPush(passthroughArgs) ==
  \E i \in 1..Len(passthroughArgs) :
    LET arg == passthroughArgs[i] IN
    IF StartsWith(arg, s_output_eq) THEN Includes(arg, s_push_eq)
    ELSE LET outputIndex == IndexOf(passthroughArgs, s_output) IN
         IF outputIndex # -1 /\ outputIndex < Len(passthroughArgs) - 1
         THEN Includes(passthroughArgs[outputIndex + 2], s_push_eq)
         ELSE FALSE

\* mutant of generatedOutput: the output is added whatever the passthrough holds
generatedOutput_IgnoresPassthrough(o) ==
  IF Truthy(o.tag)
  THEN LET pushValue == IF o.push THEN s_true ELSE s_false
       IN  <<s_output, s_type_image_name \o o.tag.val \o s_comma_push_eq \o pushValue>>
  ELSE <<s_output, s_type_docker>>

\* the output the wrapper adds when the passthrough has none
generatedOutput(o) ==
  IF hasOutputInPassthrough(o.passthroughArgs) THEN <<>>
  ELSE IF Truthy(o.tag)
  THEN LET pushValue == IF o.push THEN s_true ELSE s_false
       IN  <<s_output, s_type_image_name \o o.tag.val \o s_comma_push_eq \o pushValue>>
  ELSE <<s_output, s_type_docker>>

RECURSIVE mergePushLoop_Substring8(_, _)
\* mutant of mergePushLoop: substring(8) instead of substring(9)
mergePushLoop_Substring8(modifiedArgs, i) ==
  IF i > Len(modifiedArgs) THEN modifiedArgs
  ELSE IF modifiedArgs[i] = s_output /\ i + 1 <= Len(modifiedArgs)
    THEN LET outputValue == modifiedArgs[i + 1] IN
         mergePushLoop_Substring8(
           IF ~Includes(outputValue, s_push_eq)
           THEN [modifiedArgs EXCEPT ![i + 1] = outputValue \o s_comma_push_true]
           ELSE modifiedArgs, i + 1)
  ELSE IF StartsWith(modifiedArgs[i], s_output_eq)
    THEN LET outputValue == Substring(modifiedArgs[i], 8) IN
         mergePushLoop_Substring8(
           IF ~Includes(outputValue, s_push_eq)
           THEN [modifiedArgs EXCEPT ![i] = s_output_eq \o outputValue \o s_comma_push_true]
           ELSE modifiedArgs, i + 1)
  ELSE mergePushLoop_Substring8(modifiedArgs, i + 1)

RECURSIVE mergePushLoop(_, _)
\* the loop that merges push=true into the passthrough outputs; i counts from 1
mergePushLoop(modifiedArgs, i) ==
  IF i > Len(modifiedArgs) THEN modifiedArgs
  ELSE IF modifiedArgs[i] = s_output /\ i + 1 <= Len(modifiedArgs)
    THEN LET outputValue == modifiedArgs[i + 1] IN
         mergePushLoop(
           IF ~Includes(outputValue, s_push_eq)
           THEN [modifiedArgs EXCEPT ![i + 1] = outputValue \o s_comma_push_true]
           ELSE modifiedArgs, i + 1)
  ELSE IF StartsWith(modifiedArgs[i], s_output_eq)
    THEN LET outputValue == Substring(modifiedArgs[i], 9) IN
         mergePushLoop(
           IF ~Includes(outputValue, s_push_eq)
           THEN [modifiedArgs EXCEPT ![i] = s_output_eq \o outputValue \o s_comma_push_true]
           ELSE modifiedArgs, i + 1)
  ELSE mergePushLoop(modifiedArgs, i + 1)

\* mutant of modifiedPassthrough: push=true is merged without --push too
modifiedPassthrough_WithoutPush(o) ==
  IF hasOutputInPassthrough(o.passthroughArgs)
  THEN mergePushLoop(o.passthroughArgs, 1)
  ELSE o.passthroughArgs

\* the passthrough arguments as they are added to the command
modifiedPassthrough(o) ==
  IF o.push /\ hasOutputInPassthrough(o.passthroughArgs)
  THEN mergePushLoop(o.passthroughArgs, 1)
  ELSE o.passthroughArgs

\* mutant of commandTokens: the passthrough is pushed before the output
commandTokens_PassthroughBeforeOutput(args, buildArgOptions, output, passthrough) ==
  args \o buildArgOptions \o passthrough \o output

\* the order in which the groups of tokens are pushed onto args
commandTokens(args, buildArgOptions, output, passthrough) ==
  args \o buildArgOptions \o output \o passthrough

buildBuildctlArgs(o) ==
  LET contextPath == pathResolve(o.context.val)
      dockerfile == validateDockerfile(o.context.val, o.dockerfile)
  IN
  IF ~dockerfile.ok THEN Throw(dockerfile.error)
  ELSE
  LET dockerfilePath == dockerfile.value
      dockerfileDir == pathDirname(dockerfilePath)
      args == baseArgs(contextPath, dockerfileDir) \o filenameOpt(dockerfilePath)
      opts == buildArgOpts(o.buildArgs, <<>>)
  IN
  IF ~opts.ok THEN Throw(opts.error)
  ELSE IF pushWithoutTarget(o)
    THEN Throw(Error("--push requires -t/--tag or --output in passthrough arguments", <<>>))
  ELSE IF /\ Truthy(o.tag) /\ hasOutputInPassthrough(o.passthroughArgs)
          /\ outputWithName(o.passthroughArgs)
    THEN Throw(Error("Cannot specify both -t/--tag and name= in passthrough --output", <<>>))
  ELSE IF /\ o.push /\ hasOutputInPassthrough(o.passthroughArgs)
          /\ outputWithPush(o.passthroughArgs)
    THEN Throw(Error("Cannot specify both --push and push= in passthrough --output", <<>>))
  ELSE Return(commandTokens(args, opts.value, generatedOutput(o), modifiedPassthrough(o)))

----------------------------------------------------------------------------
(* The main script *)

\* mutant of isDockerfileCommand: only the name of the script is looked at
isDockerfileCommand_NameOnly ==
  \/ Includes(scriptName, s_dockerfile)
  \/ Includes(scriptName, s_buildctl_d)

\* scriptName or the raw arguments name the dockerfile command
isDockerfileCommand ==
  \/ Includes(scriptName, s_dockerfile)
  \/ Includes(scriptName, s_buildctl_d)
  \/ \E i \in 1..Len(argv) : argv[i] = s_dockerfile
  \/ \E i \in 1..Len(argv) : argv[i] = s_d

\* mutant of subcommandStripped: the subcommand word is removed wherever it is
subcommandStripped_Anywhere(args) ==
  SelectSeq(args, LAMBDA a : a # s_dockerfile /\ a # s_d)

\* argv without a leading subcommand word
subcommandStripped(args) ==
  IF Len(args) > 0 /\ (args[1] = s_dockerfile \/ args[1] = s_d)
  THEN SliceFrom(args, 1)
  ELSE args

\* what spawnSync can return: a spawn error, an exit status, or no status
NoStatus == [isNull |-> TRUE, val |-> 0]
SpawnResults ==
  { [error |-> TRUE, status |-> NoStatus] }
    \cup { [error |-> FALSE, status |-> NoStatus] }
    \cup { [error |-> FALSE, status |-> [isNull |-> FALSE, val |-> n]] : n \in 0..MaxStatus }

\* result.status || 0
statusOrZero(status) == IF status.isNull THEN 0 ELSE status.val

\* the value of `result` before spawnSync is called
NotSpawned == [error |-> FALSE, status |-> NoStatus]

\* the message printed when the platform has no binary
NoBinaryLine(h) ==
  [ prefix |-> "The buildctl CLI package doesn't ship with prebuilt binaries for your platform",
    text |-> " {0} {1}", args |-> <<h.platform, h.arch>> ]

\* mutant of LookupPlatform: the lookup failure is printed and the script goes on
LookupPlatform_GoesOn ==
  /\ pc = "lookup"
  /\ IF binPathOf(host).isNull
     THEN stderr' = Append(stderr, NoBinaryLine(host))
     ELSE UNCHANGED stderr
  /\ pc' = "parse"
  /\ UNCHANGED <<host, install, argv, scriptName, options, buildctlArgs, stdout, helpShown,
                 spawned, exitCode, result>>

\* look up the binary of the platform; without one the script exits
LookupPlatform ==
  /\ pc = "lookup"
  /\ IF binPathOf(host).isNull
     THEN /\ stderr' = Append(stderr, NoBinaryLine(host))
          /\ exitCode' = 1
          /\ pc' = "exit"
     ELSE /\ pc' = "parse"
          /\ UNCHANGED <<stderr, exitCode>>
  /\ UNCHANGED <<host, install, argv, scriptName, options, buildctlArgs, stdout, helpShown,
                 spawned, result>>

\* mutant of Parse: a parse error is printed without the help
Parse_WithoutHelp ==
  /\ pc = "parse"
  /\ LET parsed == parseArgs(subcommandStripped(argv)) IN
     IF parsed.ok
     THEN /\ options' = parsed.value
          /\ pc' = "help"
          /\ UNCHANGED <<stderr, exitCode>>
     ELSE /\ stderr' = Append(stderr, ErrorLine(parsed.error))
          /\ exitCode' = 1
          /\ pc' = "exit"
          /\ UNCHANGED options
  /\ UNCHANGED <<host, install, argv, scriptName, buildctlArgs, stdout, helpShown, spawned, result>>

\* parse the command line; a parse error prints the error and the help
Parse ==
  /\ pc = "parse"
  /\ LET parsed == parseArgs(subcommandStripped(argv)) IN
     IF parsed.ok
     THEN /\ options' = parsed.value
          /\ pc' = "help"
          /\ UNCHANGED <<stderr, helpShown, exitCode>>
     ELSE /\ stderr' = Append(stderr, ErrorLine(parsed.error))
          /\ helpShown' = helpShown + 1
          /\ exitCode' = 1
          /\ pc' = "exit"
          /\ UNCHANGED options
  /\ UNCHANGED <<host, install, argv, scriptName, buildctlArgs, stdout, spawned, result>>

\* show help if requested
Help ==
  /\ pc = "help"
  /\ options.help
  /\ helpShown' = helpShown + 1
  /\ exitCode' = 0
  /\ pc' = "exit"
  /\ UNCHANGED <<host, install, argv, scriptName, options, buildctlArgs, stdout, stderr, spawned,
                 result>>

\* mutant of ValidateContext: the context is checked before the help flag
ValidateContext_BeforeHelp ==
  /\ pc = "help"
  /\ IF ~Truthy(options.context)
     THEN /\ stderr' = Append(stderr, ErrorLine(Error("Context path is required", <<>>)))
          /\ helpShown' = helpShown + 1
          /\ exitCode' = 1
          /\ pc' = "exit"
     ELSE IF ~existsSync(options.context.val)
     THEN /\ stderr' = Append(stderr,
               ErrorLine(Error("Context path does not exist: {0}", <<options.context.val>>)))
          /\ exitCode' = 1
          /\ pc' = "exit"
          /\ UNCHANGED helpShown
     ELSE /\ ~options.help
          /\ pc' = "build"
          /\ UNCHANGED <<stderr, helpShown, exitCode>>
  /\ UNCHANGED <<host, install, argv, scriptName, options, buildctlArgs, stdout, spawned, result>>

\* mutant of ValidateContext: a missing context is reported, and the script goes on
ValidateContext_GoesOn ==
  /\ pc = "help"
  /\ ~options.help
  /\ IF ~Truthy(options.context)
     THEN /\ stderr' = Append(stderr, ErrorLine(Error("Context path is required", <<>>)))
          /\ helpShown' = helpShown + 1
          /\ exitCode' = 1
          /\ pc' = "exit"
     ELSE IF ~existsSync(options.context.val)
     THEN /\ stderr' = Append(stderr,
               ErrorLine(Error("Context path does not exist: {0}", <<options.context.val>>)))
          /\ pc' = "build"
          /\ UNCHANGED <<helpShown, exitCode>>
     ELSE /\ pc' = "build"
          /\ UNCHANGED <<stderr, helpShown, exitCode>>
  /\ UNCHANGED <<host, install, argv, scriptName, options, buildctlArgs, stdout, spawned, result>>

\* the context is required and must exist
ValidateContext ==
  /\ pc = "help"
  /\ ~options.help
  /\ IF ~Truthy(options.context)
     THEN /\ stderr' = Append(stderr, ErrorLine(Error("Context path is required", <<>>)))
          /\ helpShown' = helpShown + 1
          /\ exitCode' = 1
          /\ pc' = "exit"
     ELSE IF ~existsSync(options.context.val)
     THEN /\ stderr' = Append(stderr,
               ErrorLine(Error("Context path does not exist: {0}", <<options.context.val>>)))
          /\ exitCode' = 1
          /\ pc' = "exit"
          /\ UNCHANGED helpShown
     ELSE /\ pc' = "build"
          /\ UNCHANGED <<stderr, helpShown, exitCode>>
  /\ UNCHANGED <<host, install, argv, scriptName, options, buildctlArgs, stdout, spawned, result>>

\* not the dockerfile command: hand the raw arguments to buildctl
RawPassthrough ==
  /\ pc = "build"
  /\ ~isDockerfileCommand
  /\ \E res \in SpawnResults :
       /\ spawned' = Append(spawned, argv)
       /\ result' = res
       /\ IF res.error
          THEN \* throw result.error: uncaught, node exits with code 1
               /\ stderr' = Append(stderr,
                    [prefix |-> "Uncaught ", text |-> "{0}", args |-> <<>>])
               /\ exitCode' = 1
          ELSE \* process.exit(result.status): no status exits with code 0
               /\ exitCode' = statusOrZero(res.status)
               /\ UNCHANGED stderr
       /\ pc' = "exit"
  /\ UNCHANGED <<host, install, argv, scriptName, options, buildctlArgs, stdout, helpShown>>

\* build the buildctl arguments; a validation error prints the error
Build ==
  /\ pc = "build"
  /\ isDockerfileCommand
  /\ LET built == buildBuildctlArgs(options) IN
     IF built.ok
     THEN /\ buildctlArgs' = built.value
          /\ pc' = "run"
          /\ UNCHANGED <<stderr, exitCode>>
     ELSE /\ stderr' = Append(stderr, ErrorLine(built.error))
          /\ exitCode' = 1
          /\ pc' = "exit"
          /\ UNCHANGED buildctlArgs
  /\ UNCHANGED <<host, install, argv, scriptName, options, stdout, helpShown, spawned, result>>

\* mutant of DryRun: the command is printed, and then run
DryRun_FallsThrough ==
  /\ pc = "run"
  /\ options.dryRun
  /\ stdout' = Append(stdout, s_buildctl_sp \o Join(buildctlArgs, s_space))
  /\ \E res \in SpawnResults :
       /\ spawned' = Append(spawned, buildctlArgs)
       /\ result' = res
       /\ exitCode' = statusOrZero(res.status)
  /\ pc' = "exit"
  /\ UNCHANGED <<host, install, argv, scriptName, options, buildctlArgs, stderr, helpShown>>

\* dry run: print the command
DryRun ==
  /\ pc = "run"
  /\ options.dryRun
  /\ stdout' = Append(stdout, s_buildctl_sp \o Join(buildctlArgs, s_space))
  /\ exitCode' = 0
  /\ pc' = "exit"
  /\ UNCHANGED <<host, install, argv, scriptName, options, buildctlArgs, stderr, helpShown, spawned,
                 result>>

\* run buildctl and exit with its status
Execute ==
  /\ pc = "run"
  /\ ~options.dryRun
  /\ \E res \in SpawnResults :
       /\ spawned' = Append(spawned, buildctlArgs)
       /\ result' = res
       /\ IF res.error
          THEN /\ stderr' = Append(stderr,
                    [prefix |-> "Failed to execute buildctl: ", text |-> "{0}",
                     args |-> <<>>])
               /\ exitCode' = 1
          ELSE /\ exitCode' = statusOrZero(res.status)
               /\ UNCHANGED stderr
       /\ pc' = "exit"
  /\ UNCHANGED <<host, install, argv, scriptName, options, buildctlArgs, stdout, helpShown>>

----------------------------------------------------------------------------
(* scripts/postinstall.js *)

\* the directories and the paths the script works on
BinDir == [dir |-> "package", name |-> <<"b","i","n">>]
NodeModulesBinDir == [dir |-> "node_modules", name |-> <<".","b","i","n">>]
binaryPath == [dir |-> "bin", name |-> n_buildctl]
nodeModulesBinPath(binName) == [dir |-> ".bin", name |-> binName]
nodeModulesBinaryPath == nodeModulesBinPath(n_buildctl)

\* the binary of the platform package, and a path where nothing is
SourceBinaryPath == [dir |-> "platform package", name |-> n_buildctl]
GonePath == [dir |-> "gone", name |-> n_buildctl]

\* the bin entries of package.json: name and path in the package
PackageBin ==
  { [binName |-> n_buildctl, binPath |-> [dir |-> "bin", name |-> n_buildctl]],
    [binName |-> n_buildctl_dockerfile,
     binPath |-> [dir |-> "bin", name |-> n_buildctl_dockerfile]],
    [binName |-> n_buildctl_d,
     binPath |-> [dir |-> "bin", name |-> n_buildctl_dockerfile]] }

\* the local script the bin entries other than buildctl name
ScriptPath == [dir |-> "bin", name |-> n_buildctl_dockerfile]

\* what can be at a path
Absent == [kind |-> "absent", target |-> GonePath]
RegularFile == [kind |-> "file", target |-> GonePath]
Directory == [kind |-> "dir", target |-> GonePath]
SymLink(target) == [kind |-> "link", target |-> target]

\* the paths where the script makes links
LinkPaths == { binaryPath } \cup { nodeModulesBinPath(e.binName) : e \in PackageBin }

\* lstat: what is at path p itself
nodeAt(t, p) ==
  IF p \in DOMAIN t THEN t[p]
  ELSE IF p = ScriptPath THEN RegularFile
  ELSE Absent

RECURSIVE followLinks(_, _, _)
\* what p leads to when at most n links are followed
followLinks(t, p, n) ==
  LET node == nodeAt(t, p)
  IN  IF node.kind # "link" THEN node
      ELSE IF n = 0 THEN Absent
      ELSE followLinks(t, node.target, n - 1)

\* fs.existsSync(p) in the tree t: links are followed, a dangling link is not there
existsSyncIn(t, p) == followLinks(t, p, Cardinality(LinkPaths)).kind # "absent"

\* fs.mkdirSync(p, { recursive: true })
mkdirSync(t, p) == [t EXCEPT ![p] = Directory]

\* fs.unlinkSync(p)
unlinkSync(t, p) == [t EXCEPT ![p] = Absent]

\* mutant of symlinkSync: the target is copied to p
symlinkSync_Copies(t, target, p) ==
  IF nodeAt(t, p).kind # "absent"
  THEN Throw(Error("EEXIST: file already exists, symlink", <<>>))
  ELSE Return([t EXCEPT ![p] = RegularFile])

\* fs.symlinkSync(target, p): fails if anything, a dangling link too, is at p
symlinkSync(t, target, p) ==
  IF nodeAt(t, p).kind # "absent"
  THEN Throw(Error("EEXIST: file already exists, symlink", <<>>))
  ELSE Return([t EXCEPT ![p] = SymLink(target)])

\* if (fs.existsSync(p)) fs.unlinkSync(p)
removeExisting(t, p) == IF existsSyncIn(t, p) THEN unlinkSync(t, p) ELSE t

\* findBinaryInPackage: the binary of the platform package, null if not installed
findBinaryInPackage(t) ==
  IF existsSyncIn(t, SourceBinaryPath) THEN Some(SourceBinaryPath) ELSE Null

\* mutant of linkTargetOf: every bin entry is linked to its path in the package
linkTargetOf_AlwaysLocal(entry, sourceBinary) == entry.binPath

\* buildctl is linked to the platform binary, the other entries to the local script
linkTargetOf(entry, sourceBinary) ==
  IF entry.binName = n_buildctl THEN sourceBinary ELSE entry.binPath

\* the body of the loop over the bin entries: the tree it leaves, and
\* whether it got to its end without an error
linkEntry(t, entry, sourceBinary) ==
  LET linkTarget == linkTargetOf(entry, sourceBinary)
      t1 == IF entry.binName = n_buildctl THEN removeExisting(t, binaryPath) ELSE t
      inBin == IF entry.binName = n_buildctl
               THEN symlinkSync(t1, linkTarget, binaryPath)
               ELSE Return(t)
      t2 == IF inBin.ok
            THEN removeExisting(inBin.value, nodeModulesBinPath(entry.binName))
            ELSE t1
      inNodeModules == symlinkSync(t2, linkTarget, nodeModulesBinPath(entry.binName))
  IN  IF ~inBin.ok THEN [ok |-> FALSE, tree |-> t1]
      ELSE IF ~inNodeModules.ok THEN [ok |-> FALSE, tree |-> t2]
      ELSE [ok |-> TRUE, tree |-> inNodeModules.value]

\* the end of a run of createBinaryLink
Ends(t, outcome) ==
  /\ ipc' = "done"
  /\ tree' = t
  /\ ended' = Append(ended, [tree |-> t, outcome |-> outcome])

\* how often createBinaryLink is run
MaxRuns == 2

\* the wrapper script does not run while the package is installed
WrapperIdle ==
  UNCHANGED <<argv, scriptName, pc, options, buildctlArgs, stdout, stderr, helpShown,
              spawned, exitCode, result, host>>

\* create the directories if they do not exist
MakeDirs ==
  /\ ipc = "dirs"
  /\ LET t1 == IF ~existsSyncIn(tree, BinDir) THEN mkdirSync(tree, BinDir) ELSE tree
         t2 == IF ~existsSyncIn(t1, NodeModulesBinDir) THEN mkdirSync(t1, NodeModulesBinDir)
               ELSE t1
     IN  tree' = t2
  /\ ipc' = "remove"
  /\ UNCHANGED <<todo, ended>>
  /\ WrapperIdle

\* remove the existing binaries
RemoveExisting ==
  /\ ipc = "remove"
  /\ tree' = removeExisting(removeExisting(tree, binaryPath), nodeModulesBinaryPath)
  /\ ipc' = "find"
  /\ UNCHANGED <<todo, ended>>
  /\ WrapperIdle

\* find the platform package and its binary
FindBinary ==
  /\ ipc = "find"
  /\ IF ~getPlatformPackageName(host).ok
     THEN Ends(tree, "failed") /\ UNCHANGED todo
     ELSE IF findBinaryInPackage(tree).isNull
     THEN Ends(tree, "skipped") /\ UNCHANGED todo
     ELSE /\ ipc' = "link"
          /\ todo' = PackageBin
          /\ UNCHANGED <<tree, ended>>
  /\ WrapperIdle

\* link one bin entry; an error ends the run in the catch block
LinkEntry ==
  /\ ipc = "link"
  /\ \E entry \in todo :
       LET linked == linkEntry(tree, entry, SourceBinaryPath)
       IN  IF linked.ok
           THEN /\ tree' = linked.tree
                /\ todo' = todo \ {entry}
                /\ UNCHANGED <<ipc, ended>>
           ELSE Ends(linked.tree, "failed") /\ todo' = {}
  /\ WrapperIdle

\* all bin entries are linked: log the links
Verify ==
  /\ ipc = "link"
  /\ todo = {}
  /\ Ends(tree, "linked")
  /\ UNCHANGED todo
  /\ WrapperIdle

\* the package is installed again
Reinstall ==
  /\ ipc = "done"
  /\ Len(ended) < MaxRuns
  /\ Len(ended) > 0
  /\ ipc' = "dirs"
  /\ UNCHANGED <<tree, todo, ended>>
  /\ WrapperIdle

----------------------------------------------------------------------------
(* Command lines *)

Opt(given, tokens) == IF given THEN tokens ELSE <<>>

SeqsUpTo(S, n) == UNION { [1..k -> S] : k \in 0..n }

RECURSIVE Flatten(_)
Flatten(ss) == IF Len(ss) = 0 THEN <<>> ELSE Head(ss) \o Flatten(Tail(ss))

\* any short command line over the words of the wrapper
FlatVocab ==
  { s_dashdash, s_help, s_h, s_dry_run, s_push, s_t, s_f, s_build_arg,
    s_output, a_c, s_d, a_empty }
FlatInputs == SeqsUpTo(FlatVocab, MaxFlat)

\* tag, push and a passthrough made of output options and other tokens
OutputValues == { a_plain, a_named, a_pushed }
PassItems ==
  { <<s_output, v>> : v \in OutputValues }
    \cup { <<s_output_eq \o v>> : v \in OutputValues }
    \cup { <<s_output>>, <<a_no_cache>> }
OutputInputs ==
  { Opt(dry, <<s_dry_run>>) \o Opt(push, <<s_push>>) \o Opt(tag, <<s_t, a_app>>)
      \o <<a_c, s_dashdash>> \o Flatten(items) :
    dry \in BOOLEAN, push \in BOOLEAN, tag \in BOOLEAN,
    items \in SeqsUpTo(PassItems, MaxItems) }

\* Dockerfile, build arguments and context
FileChoices ==
  { <<>>, <<s_f, a_f_custom>>, <<s_file, a_f_sub>>, <<s_f, a_f_lower>>,
    <<s_f, a_f_missing>> }
BuildArgValues == { a_A1, a_B2, a_NOEQ, a_eqV }
ContextChoices == { s_dot, a_c, a_abs_c, a_n, a_x, a_ctx_file }
PassChoices == { <<>>, <<s_dashdash, a_no_cache>> }
RECURSIVE BuildArgFlags(_)
BuildArgFlags(values) ==
  IF Len(values) = 0 THEN <<>>
  ELSE <<s_build_arg, Head(values)>> \o BuildArgFlags(Tail(values))
ArgsInputs ==
  { <<s_dry_run>> \o file \o BuildArgFlags(values) \o Opt(tag, <<s_tag, a_app>>)
      \o Opt(push, <<s_push>>) \o <<context>> \o pass :
    file \in FileChoices, values \in SeqsUpTo(BuildArgValues, MaxBuildArgs),
    tag \in BOOLEAN, push \in BOOLEAN, context \in ContextChoices,
    pass \in PassChoices }

\* a flag that takes a value, followed by nothing or by any short tail
ValueFlags == { s_f, s_file, s_build_arg, s_t, s_tag }
TailVocab == { s_h, s_push, s_t, s_dashdash, a_c, a_A1 }
ValueFlagInputs ==
  { before \o <<flag>> \o after :
    before \in { <<>>, <<a_c>>, <<s_dry_run>> }, flag \in ValueFlags,
    after \in SeqsUpTo(TailVocab, MaxItems) }

\* command lines written out in README.md and TESTS.md, run in /w/c
DocumentedInputs ==
  { <<s_dry_run>> \o Opt(tag, <<s_t, a_myapp_latest>>) \o <<a_abs_c>>
      \o <<s_dashdash, s_output, a_registry_override>> :
    tag \in BOOLEAN }

\* a Dockerfile given by an absolute path that is not normalized
DockerfileInputs ==
  { <<s_dry_run, s_f, file, context>> :
    file \in { a_f_dotdot, a_f_dotdot_missing }, context \in { a_c, s_dot } }

\* a first word that is the subcommand, or is not, and a short tail
SubcommandInputs ==
  { first \o rest :
    first \in { <<s_dockerfile>>, <<s_d>>, <<a_dd>>, <<>> },
    rest \in SeqsUpTo({ a_c, s_dockerfile, s_dry_run }, 2) }

Inputs ==
  FlatInputs \cup OutputInputs \cup ArgsInputs \cup ValueFlagInputs
    \cup DocumentedInputs \cup DockerfileInputs \cup SubcommandInputs

\* the names the package installs the script under
ShippedNames == { n_buildctl_dockerfile, n_buildctl_d }

----------------------------------------------------------------------------
(* Specification *)

Start ==
  /\ argv \in Inputs
  /\ pc = "parse"
  /\ options = InitialOptions
  /\ buildctlArgs = <<>>
  /\ stdout = <<>>
  /\ stderr = <<>>
  /\ helpShown = 0
  /\ spawned = <<>>
  /\ exitCode = 0
  /\ result = NotSpawned

\* the tree a completed install leaves
InstalledTree ==
  [p \in {BinDir, NodeModulesBinDir, SourceBinaryPath} \cup LinkPaths |->
     IF p \in {BinDir, NodeModulesBinDir} THEN Directory
     ELSE IF p = SourceBinaryPath THEN RegularFile
     ELSE IF p.name = n_buildctl THEN SymLink(SourceBinaryPath)
     ELSE SymLink(ScriptPath)]

\* the package is installed, on a platform with a binary
Installed ==
  /\ host = [platform |-> p_linux, arch |-> c_x64]
  /\ ipc = "done"
  /\ tree = InstalledTree
  /\ todo = {}
  /\ ended = <<>>

\* installed under a shipped name
Init == Start /\ Installed /\ scriptName \in ShippedNames

Next == Parse \/ Help \/ ValidateContext \/ Build \/ DryRun \/ Execute

Spec == Init /\ [][Next]_vars

\* installed or copied under any name
InitAnyScript == Start /\ Installed /\ scriptName \in ShippedNames \cup { n_buildctl }

NextAnyScript == Next \/ RawPassthrough

SpecAnyScript == InitAnyScript /\ [][NextAnyScript]_vars

\* process.platform and process.arch of the hosts
Hosts ==
  [platform : { p_win32, p_darwin, p_linux, p_freebsd },
   arch : { c_x64, c_arm64, c_arm, c_ppc64, c_riscv64, c_s390x, c_ia32 }]

\* the command lines run on every host
PlatformInputs ==
  DocumentedInputs \cup { <<>>, <<s_h>>, <<a_c>>, <<s_dry_run, a_c>>, <<s_dry_run, s_push, a_c>> }

\* the script is started on any host: the platform lookup comes first
InitPlatforms ==
  /\ argv \in PlatformInputs
  /\ scriptName \in ShippedNames
  /\ pc = "lookup"
  /\ options = InitialOptions
  /\ buildctlArgs = <<>>
  /\ stdout = <<>>
  /\ stderr = <<>>
  /\ helpShown = 0
  /\ spawned = <<>>
  /\ exitCode = 0
  /\ result = NotSpawned
  /\ host \in Hosts
  /\ ipc = "done"
  /\ tree = InstalledTree
  /\ todo = {}
  /\ ended = <<>>

NextPlatforms == LookupPlatform \/ Next

SpecPlatforms == InitPlatforms /\ [][NextPlatforms]_vars

\* what can be at bin/buildctl before the package is installed: nothing, a
\* file, a link to the platform binary or to a script, a dangling link
PriorNodes ==
  { Absent, RegularFile, SymLink(SourceBinaryPath), SymLink(ScriptPath), SymLink(GonePath) }

\* the trees before the package is installed: the platform package is
\* installed or not, node_modules/.bin exists or not, anything at the link
\* paths; node_modules/.bin entries may also be links to bin/buildctl
PriorTrees ==
  { [p \in {BinDir, NodeModulesBinDir, SourceBinaryPath} \cup LinkPaths |->
       IF p = BinDir THEN Directory
       ELSE IF p = NodeModulesBinDir THEN d
       ELSE IF p = SourceBinaryPath THEN src
       ELSE IF p = binaryPath THEN b
       ELSE IF d = Absent THEN Absent
       ELSE f[p]] :
      d \in { Absent, Directory }, src \in { Absent, RegularFile }, b \in PriorNodes,
      f \in [LinkPaths \ { binaryPath } -> PriorNodes \cup { SymLink(binaryPath) }] }

\* the hosts the package is installed on
InstallHosts ==
  { [platform |-> p_linux, arch |-> c_x64], [platform |-> p_freebsd, arch |-> c_x64] }

\* npm runs scripts/postinstall.js
InitPostinstall ==
  /\ argv = <<>>
  /\ scriptName = n_buildctl_dockerfile
  /\ pc = "idle"
  /\ options = InitialOptions
  /\ buildctlArgs = <<>>
  /\ stdout = <<>>
  /\ stderr = <<>>
  /\ helpShown = 0
  /\ spawned = <<>>
  /\ exitCode = 0
  /\ result = NotSpawned
  /\ host \in InstallHosts
  /\ ipc = "dirs"
  /\ tree \in PriorTrees
  /\ todo = {}
  /\ ended = <<>>

NextPostinstall == MakeDirs \/ RemoveExisting \/ FindBinary \/ LinkEntry \/ Verify \/ Reinstall

SpecPostinstall == InitPostinstall /\ [][NextPostinstall]_vars

----------------------------------------------------------------------------
(* Vocabulary of the properties *)

\* the request and the command the properties speak about
Passthrough == options.passthroughArgs
Emitted == buildctlArgs

\* buildBuildctlArgs returned a command (it has at least the seven base tokens)
Synthesized == buildctlArgs # <<>>

\* the invocation ended with exit code 1, printed no command and ran nothing
Rejected ==
  /\ pc = "exit"
  /\ exitCode = 1
  /\ stdout = <<>>
  /\ spawned = <<>>

\* rejected with exactly one message, the fixed text `text`
RejectedWith(text) ==
  /\ Rejected
  /\ stderr = << [prefix |-> "Error: ", text |-> text, args |-> <<>>] >>

\* the script ended with a parse error
ParseFailed ==
  /\ pc = "exit"
  /\ Len(stderr) = 1
  /\ stderr[1].text \in { "Option {0} requires a value", "Unknown option: {0}",
                          "Multiple context paths specified: {0} and {1}" }

\* parseArgs returned
Parsed == pc \notin {"lookup", "parse"} /\ ~ParseFailed

\* the passthrough has a token --output or a token starting with --output=
PassthroughHasOutput ==
  \E i \in DOMAIN Passthrough :
    Passthrough[i] = s_output \/ StartsWith(Passthrough[i], s_output_eq)

RECURSIVE OutputFlagsFrom(_, _)
\* positions of the --output options of a passthrough, read left to right
\* as buildctl reads them: the token after an --output flag is its value
OutputFlagsFrom(pt, i) ==
  IF i > Len(pt) THEN {}
  ELSE IF pt[i] = s_output THEN {i} \cup OutputFlagsFrom(pt, i + 2)
  ELSE IF StartsWith(pt[i], s_output_eq) THEN {i} \cup OutputFlagsFrom(pt, i + 1)
  ELSE OutputFlagsFrom(pt, i + 1)
OutputFlags == OutputFlagsFrom(Passthrough, 1)

\* the --output option at position i has the two-token form
TwoTokenForm(i) == Passthrough[i] = s_output

\* the --output option at position i has a value
HasValue(i) == TwoTokenForm(i) => i + 1 <= Len(Passthrough)

\* the value of the --output option at position i
OutputValue(i) ==
  IF TwoTokenForm(i)
  THEN (IF i + 1 <= Len(Passthrough) THEN Passthrough[i + 1] ELSE <<>>)
  ELSE SubSeq(Passthrough[i], Len(s_output_eq) + 1, Len(Passthrough[i]))

\* the checks that come before the option conflicts all passed:
\* no help, a context that exists, a Dockerfile that exists, valid build args
EarlierChecksPass ==
  /\ pc \in {"run", "exit"}
  /\ ~options.help
  /\ ~options.context.isNull /\ options.context.val # <<>>
  /\ existsSync(options.context.val)
  /\ validateDockerfile(options.context.val, options.dockerfile).ok
  /\ \A i \in DOMAIN options.buildArgs : Includes(options.buildArgs[i], s_eq)

\* the last Len(Passthrough) tokens of the emitted command
EmittedPassthrough ==
  SubSeq(Emitted, Len(Emitted) - Len(Passthrough) + 1, Len(Emitted))

\* the tokens of the emitted command before the passthrough
EmittedHead == SubSeq(Emitted, 1, Len(Emitted) - Len(Passthrough))

----------------------------------------------------------------------------
(* C1 *)

\* C1 as stated: --push with no tag and no passthrough output always ends
\* with exit code 1, nothing printed, nothing spawned, whatever the other
\* flags are (-h/--help included).
C1_PushWithoutTargetAlwaysExit1 ==
  (pc = "exit" /\ options.push /\ options.tag.isNull /\ ~PassthroughHasOutput)
    => Rejected

\* C1, amended: --push with no tag and no passthrough output never prints a
\* command and never spawns buildctl; the exit code is 1, except that with
\* -h/--help before the separator help is shown and the exit code is 0; when
\* the earlier checks pass the only message is the --push error.  A command
\* line with --push that fails to parse ends with exit code 1 as well.
C1_PushWithoutTargetRejected ==
  /\ (pc = "exit" /\ options.push /\ options.tag.isNull /\ ~PassthroughHasOutput)
       => /\ stdout = <<>>
          /\ spawned = <<>>
          /\ ~Synthesized
          /\ exitCode = (IF options.help THEN 0 ELSE 1)
          /\ options.help => (helpShown = 1 /\ stderr = <<>>)
          /\ EarlierChecksPass =>
               RejectedWith("--push requires -t/--tag or --output in passthrough arguments")
  /\ (ParseFailed /\ \E i \in DOMAIN argv : argv[i] = s_push)
       => Rejected /\ ~Synthesized

\* a --push without tag and output was rejected by the --push check itself
C1_Witness ==
  /\ options.push /\ options.tag.isNull /\ ~PassthroughHasOutput
  /\ options.dryRun /\ Len(options.buildArgs) > 0 /\ Len(Passthrough) > 0
  /\ RejectedWith("--push requires -t/--tag or --output in passthrough arguments")

----------------------------------------------------------------------------
(* C2 *)

\* C2: with a tag, a passthrough --output option (either form, any position,
\* any number of them) whose value contains name= is rejected with the
\* tag/name conflict error, once the earlier checks have passed.
C2_TagAndOutputNameRejected ==
  ( /\ EarlierChecksPass
    /\ ~options.tag.isNull /\ options.tag.val # <<>>
    /\ \E i \in OutputFlags : HasValue(i) /\ Includes(OutputValue(i), s_name_eq) )
    => RejectedWith("Cannot specify both -t/--tag and name= in passthrough --output")

----------------------------------------------------------------------------
(* C3 *)

\* C3: with --push, a passthrough --output option (either form, any
\* position, any number of them) whose value contains push= is rejected with
\* the push conflict error, once the earlier checks have passed; so no
\* command synthesized under --push carries a push= given by the user.
C3_PushAndOutputPushRejected ==
  /\ ( /\ EarlierChecksPass
       /\ options.push
       /\ ~(~options.tag.isNull /\ options.tag.val # <<>> /\
            \E i \in OutputFlags : HasValue(i) /\ Includes(OutputValue(i), s_name_eq))
       /\ \E i \in OutputFlags : HasValue(i) /\ Includes(OutputValue(i), s_push_eq) )
       => RejectedWith("Cannot specify both --push and push= in passthrough --output")
  /\ (Synthesized /\ options.push)
       => \A i \in OutputFlags : ~(HasValue(i) /\ Includes(OutputValue(i), s_push_eq))

----------------------------------------------------------------------------
(* C4 *)

\* the emitted passthrough carries the --output option at position i with
\* ,push=true appended to its value, in the form it was given in
PushAppended(i) ==
  IF TwoTokenForm(i)
  THEN /\ i + 1 <= Len(EmittedPassthrough)
       /\ EmittedPassthrough[i] = s_output
       /\ EmittedPassthrough[i + 1] = OutputValue(i) \o s_comma_push_true
  ELSE EmittedPassthrough[i] = s_output_eq \o OutputValue(i) \o s_comma_push_true

\* C4 as stated: under --push every passthrough --output option whose value
\* lacks push= is emitted with ,push=true appended, form preserved, also
\* when --output is the last passthrough token.
C4_PushAppendedToEveryOutput ==
  (Synthesized /\ options.push)
    => \A i \in OutputFlags :
         ~Includes(OutputValue(i), s_push_eq) => PushAppended(i)

\* C4, amended: under --push every passthrough --output option that has a
\* value lacking push= is emitted with ,push=true appended to that value,
\* form preserved (two tokens stay two tokens, one token stays one token);
\* an --output that is the last passthrough token has no value and is
\* emitted unchanged, with no push=true added for it.
C4_PushAppendedToOutputValues ==
  (Synthesized /\ options.push)
    => /\ Len(Emitted) >= Len(Passthrough)
       /\ \A i \in OutputFlags :
            IF HasValue(i)
            THEN ~Includes(OutputValue(i), s_push_eq) => PushAppended(i)
            ELSE EmittedPassthrough[i] = s_output

\* --push rewrote an output given as two tokens and one given as one token
C4_Witness ==
  /\ Synthesized /\ options.push
  /\ \E i, j \in OutputFlags :
       /\ TwoTokenForm(i) /\ HasValue(i) /\ PushAppended(i)
       /\ ~TwoTokenForm(j) /\ PushAppended(j)

----------------------------------------------------------------------------
(* C5 *)

\* positions of the --output tokens of the emitted command
EmittedOutputFlags == { i \in DOMAIN Emitted : Emitted[i] = s_output }

\* the output value the tag and --push stand for
TagOutputValue ==
  s_type_image_name \o options.tag.val \o s_comma_push_eq
    \o (IF options.push THEN s_true ELSE s_false)

\* C5: with no passthrough --output, a tag X (any string given with
\* -t/--tag) yields exactly one pair --output type=image,name=X,push=P, P
\* being true iff --push was given; no tag yields exactly one pair
\* --output type=docker.
C5_GeneratedOutput ==
  (Synthesized /\ ~PassthroughHasOutput)
    => /\ Cardinality(EmittedOutputFlags) = 1
       /\ \A i \in EmittedOutputFlags :
            /\ i + 1 <= Len(Emitted)
            /\ Emitted[i + 1] =
                 (IF options.tag.isNull THEN s_type_docker ELSE TagOutputValue)

\* C5 for the tags that are not the empty string
C5_GeneratedOutputNonEmptyTag ==
  (Synthesized /\ ~PassthroughHasOutput /\ (options.tag.isNull \/ options.tag.val # <<>>))
    => /\ Cardinality(EmittedOutputFlags) = 1
       /\ \A i \in EmittedOutputFlags :
            /\ i + 1 <= Len(Emitted)
            /\ Emitted[i + 1] =
                 (IF options.tag.isNull THEN s_type_docker ELSE TagOutputValue)

----------------------------------------------------------------------------
(* C6 *)

\* C6: when the passthrough has an --output token and synthesis succeeds,
\* the wrapper adds no output of its own: the tokens before the passthrough
\* hold no --output token and no output value made from the tag, and every
\* --output token of the emitted command lies in the passthrough part.
C6_PassthroughOutputOverrides ==
  (Synthesized /\ PassthroughHasOutput)
    => /\ Len(Emitted) >= Len(Passthrough)
       /\ \A i \in DOMAIN EmittedHead :
            /\ EmittedHead[i] # s_output
            /\ ~StartsWith(EmittedHead[i], s_output_eq)
            /\ ~StartsWith(EmittedHead[i], s_type_image_name)
            /\ ~options.tag.isNull =>
                 ~Includes(EmittedHead[i], s_name_eq \o options.tag.val)
       /\ \A i \in DOMAIN Emitted :
            (Emitted[i] = s_output \/ StartsWith(Emitted[i], s_output_eq))
              => i > Len(Emitted) - Len(Passthrough)

\* a command was synthesized from a tag and a passthrough output
C6_Witness ==
  /\ Synthesized /\ PassthroughHasOutput
  /\ ~options.tag.isNull /\ options.tag.val = a_app
  /\ pc = "exit" /\ exitCode = 0 /\ Len(stdout) = 1

----------------------------------------------------------------------------
(* C7 *)

\* the token is a build-arg option value
IsBuildArgToken(token) == StartsWith(token, s_build_arg_colon)

\* positions of the build-arg option values before the passthrough
BuildArgPositions == { i \in DOMAIN EmittedHead : IsBuildArgToken(EmittedHead[i]) }

\* C7: the emitted command has one pair --opt build-arg:{entry} per
\* --build-arg entry, in the order given, none dropped, duplicated or
\* reordered, all before any --output token.
C7_BuildArgsInOrder ==
  Synthesized
    => /\ SelectSeq(EmittedHead, IsBuildArgToken)
            = [i \in 1..Len(options.buildArgs) |->
                 s_build_arg_colon \o options.buildArgs[i]]
       /\ \A i \in BuildArgPositions : i > 1 /\ EmittedHead[i - 1] = s_opt
       /\ \A i \in BuildArgPositions : \A j \in DOMAIN Emitted :
            (Emitted[j] = s_output \/ StartsWith(Emitted[j], s_output_eq)) => i < j

\* a command was synthesized from two different build args, the later
\* in alphabetical order given first
C7_Witness ==
  /\ Synthesized
  /\ options.buildArgs = <<a_B2, a_A1>>
  /\ PassthroughHasOutput = FALSE

----------------------------------------------------------------------------
(* C8 *)

\* the filename option values before the passthrough
FilenamePositions ==
  { i \in DOMAIN EmittedHead :
      /\ i > 1
      /\ EmittedHead[i - 1] = s_opt
      /\ StartsWith(EmittedHead[i], s_filename_eq) }

\* base name of the resolved Dockerfile path
ResolvedBaseName ==
  pathBasename(fullDockerfilePath(options.context.val, options.dockerfile))

\* C8: the emitted command has the pair --opt filename={base} iff the base
\* name of the resolved Dockerfile path is not exactly Dockerfile, for the
\* default Dockerfile and for one given with -f/--file alike.
C8_FilenameIffNotDockerfile ==
  Synthesized
    => /\ (FilenamePositions # {}) <=> (ResolvedBaseName # s_Dockerfile)
       /\ Cardinality(FilenamePositions) <= 1
       /\ \A i \in FilenamePositions :
            EmittedHead[i] = s_filename_eq \o ResolvedBaseName

\* a Dockerfile given with --file and named Dockerfile got no filename option
C8_Witness ==
  /\ Synthesized
  /\ options.dockerfile = Some(a_f_sub)
  /\ FilenamePositions = {}

\* a Dockerfile named dockerfile, in lower case, got a filename option
C8_WitnessLowerCase ==
  /\ Synthesized
  /\ options.dockerfile = Some(a_f_lower)
  /\ FilenamePositions # {}

----------------------------------------------------------------------------
(* C9 *)

\* C9: a synthesized command is build, --frontend dockerfile.v0, --local
\* context={absolute context}, --local dockerfile={directory of the
\* Dockerfile}, then the optional filename pair, then the build-arg pairs,
\* then the wrapper's output pair if any, then the passthrough tokens; the
\* groups never change places.
C9_FixedShape ==
  Synthesized =>
    \E hasName \in {0, 1}, hasOutput \in {0, 1} :
      LET nArgs == Len(options.buildArgs)
          atName == 7
          atArgs == atName + 2 * hasName
          atOutput == atArgs + 2 * nArgs
          atPass == atOutput + 2 * hasOutput
      IN
      /\ Len(Emitted) = atPass + Len(Passthrough)
      /\ Emitted[1] = s_build
      /\ Emitted[2] = s_frontend
      /\ Emitted[3] = s_dockerfile_v0
      /\ Emitted[4] = s_local
      /\ StartsWith(Emitted[5], s_context_eq \o s_slash)
      /\ Emitted[5] = s_context_eq \o pathResolve(options.context.val)
      /\ Emitted[6] = s_local
      /\ Emitted[7] = s_dockerfile_eq
           \o pathDirname(fullDockerfilePath(options.context.val, options.dockerfile))
      /\ existsSync(Substring(Emitted[7], Len(s_dockerfile_eq)))
      /\ hasName = 1 =>
           /\ Emitted[atName + 1] = s_opt
           /\ StartsWith(Emitted[atName + 2], s_filename_eq)
      /\ \A k \in 1..nArgs :
           /\ Emitted[atArgs + 2 * k - 1] = s_opt
           /\ Emitted[atArgs + 2 * k] = s_build_arg_colon \o options.buildArgs[k]
      /\ hasOutput = 1 =>
           /\ Emitted[atOutput + 1] = s_output
           /\ \/ Emitted[atOutput + 2] = s_type_docker
              \/ StartsWith(Emitted[atOutput + 2], s_type_image_name)
      /\ hasOutput = 0 <=> PassthroughHasOutput
      /\ \A k \in DOMAIN Passthrough :
           \/ Emitted[atPass + k] = Passthrough[k]
           \/ Emitted[atPass + k] = Passthrough[k] \o s_comma_push_true

\* a command with every group: filename, build args, output, passthrough
C9_Witness ==
  /\ Synthesized
  /\ FilenamePositions # {}
  /\ Len(options.buildArgs) = 2
  /\ ~PassthroughHasOutput
  /\ Len(Passthrough) > 0
  /\ ~options.tag.isNull

----------------------------------------------------------------------------
(* C10 *)

\* the command line after the subcommand word has been removed
CommandLine ==
  IF Len(argv) > 0 /\ argv[1] \in {s_dockerfile, s_d} THEN Tail(argv) ELSE argv

\* positions of the separator tokens
Separators == { i \in DOMAIN CommandLine : CommandLine[i] = s_dashdash }

\* the first separator
FirstSeparator == CHOOSE i \in Separators : \A j \in Separators : i <= j

\* the tokens before the first separator, all tokens if there is none
OptionSegment ==
  IF Separators = {} THEN CommandLine
  ELSE SubSeq(CommandLine, 1, FirstSeparator - 1)

\* the tokens after the first separator
PassthroughSegment ==
  IF Separators = {} THEN <<>>
  ELSE SubSeq(CommandLine, FirstSeparator + 1, Len(CommandLine))

OptionTokens == LET seg == OptionSegment IN { seg[i] : i \in DOMAIN seg }

\* C10: the command line is split at the first --; what is before it is
\* parsed as options and context, what is after it (--help, --dry-run, -t, a
\* later -- included) is the passthrough, in order, is never read as a
\* wrapper option, and ends the emitted command unchanged but for the push
\* rewrite of output values.
C10_SplitAtFirstSeparator ==
  /\ Parsed =>
       /\ Passthrough = PassthroughSegment
       /\ options.help => (s_h \in OptionTokens \/ s_help \in OptionTokens)
       /\ options.dryRun => s_dry_run \in OptionTokens
       /\ options.push => s_push \in OptionTokens
       /\ ~options.tag.isNull =>
            /\ options.tag.val \in OptionTokens
            /\ (s_t \in OptionTokens \/ s_tag \in OptionTokens)
       /\ ~options.dockerfile.isNull =>
            /\ options.dockerfile.val \in OptionTokens
            /\ (s_f \in OptionTokens \/ s_file \in OptionTokens)
       /\ ~options.context.isNull => options.context.val \in OptionTokens
       /\ Len(options.buildArgs) > 0 => s_build_arg \in OptionTokens
       /\ \A i \in DOMAIN options.buildArgs : options.buildArgs[i] \in OptionTokens
  /\ ParseFailed =>
       \A i \in DOMAIN stderr[1].args : stderr[1].args[i] \in OptionTokens
  /\ Synthesized =>
       /\ Len(Emitted) >= Len(PassthroughSegment)
       /\ ~(options.push /\ PassthroughHasOutput) => EmittedPassthrough = PassthroughSegment
       /\ \A k \in DOMAIN PassthroughSegment :
            \/ EmittedPassthrough[k] = PassthroughSegment[k]
            \/ /\ options.push
               /\ EmittedPassthrough[k] = PassthroughSegment[k] \o s_comma_push_true

\* a passthrough that holds --help was emitted, and help was not shown
C10_Witness ==
  /\ Synthesized
  /\ \E i \in DOMAIN Passthrough : Passthrough[i] = s_help
  /\ ~options.help /\ helpShown = 0
  /\ pc = "exit" /\ exitCode = 0

\* a passthrough that holds a second -- was emitted
C10_WitnessSecondSeparator ==
  /\ Synthesized
  /\ \E i \in DOMAIN Passthrough : Passthrough[i] = s_dashdash
  /\ Emitted[Len(Emitted)] = s_dashdash

----------------------------------------------------------------------------
(* C11 *)

RECURSIVE SpaceSeparated(_)
\* the tokens with one space between neighbours, built from the last token back
SpaceSeparated(tokens) ==
  IF Len(tokens) = 0 THEN <<>>
  ELSE IF Len(tokens) = 1 THEN tokens[1]
  ELSE SpaceSeparated(SubSeq(tokens, 1, Len(tokens) - 1)) \o s_space
         \o tokens[Len(tokens)]

\* C11: with --dry-run, once parsing and validation have succeeded the script
\* prints exactly one line, `buildctl ` followed by the synthesized tokens
\* separated by single spaces, exits with code 0, and buildctl is never run.
C11_DryRunPrintsAndExits ==
  /\ (Parsed /\ options.dryRun) => spawned = <<>>
  /\ (Synthesized /\ options.dryRun) =>
       /\ pc \in {"run", "exit"}
       /\ pc = "run" => stdout = <<>>
       /\ pc = "exit" =>
            /\ stdout = << s_buildctl_sp \o SpaceSeparated(Emitted) >>
            /\ exitCode = 0
            /\ stderr = <<>>
            /\ helpShown = 0

\* a dry run printed a command with options and a passthrough
C11_Witness ==
  /\ pc = "exit"
  /\ options.dryRun
  /\ Synthesized
  /\ Len(stdout) = 1
  /\ Len(Passthrough) > 0
  /\ ~options.tag.isNull

----------------------------------------------------------------------------
(* C12 *)

\* the order of the positions of the script
PipelineRank(p) ==
  CASE p = "lookup" -> 0
    [] p = "parse" -> 1
    [] p = "help" -> 2
    [] p = "build" -> 3
    [] p = "run" -> 4
    [] p = "exit" -> 5

\* a parse error or a validation error has been printed
ErrorReported == \E i \in DOMAIN stderr : stderr[i].prefix = "Error: "

\* C12: a parse or validation failure is terminal. Once an error is
\* reported the script has exited with code 1, no command has been
\* synthesized, printed or run, and nothing follows: every step moves the
\* script forward, so no position is visited twice and none after the exit.
C12_FailureIsTerminal ==
  /\ [](ErrorReported =>
          /\ pc = "exit"
          /\ exitCode = 1
          /\ Len(stderr) = 1
          /\ ~Synthesized
          /\ stdout = <<>>
          /\ spawned = <<>>)
  /\ [][PipelineRank(pc') > PipelineRank(pc)]_vars

\* a validation failure: the Dockerfile was not found
C12_Witness ==
  /\ ErrorReported
  /\ pc = "exit"
  /\ stderr[1].text = "Dockerfile not found: {0}"

\* a parse failure
C12_WitnessParse == ErrorReported /\ ParseFailed

----------------------------------------------------------------------------
(* C13 *)

RECURSIVE ConsumedFrom(_, _)
\* positions of the segment that are taken as the value of the flag before
\* them, reading from position i
ConsumedFrom(seg, i) ==
  IF i > Len(seg) THEN {}
  ELSE IF seg[i] \in ValueFlags
       THEN (IF i + 1 <= Len(seg) THEN {i + 1} ELSE {})
              \cup ConsumedFrom(seg, i + 2)
       ELSE ConsumedFrom(seg, i + 1)

\* positions read as a value, and positions read as a flag or a context
ConsumedPositions == ConsumedFrom(OptionSegment, 1)
OptionPositions == DOMAIN OptionSegment \ ConsumedPositions

\* option positions that hold one of the given flags
FlagPositions(flags) ==
  LET seg == OptionSegment IN { i \in OptionPositions : seg[i] \in flags }

\* option positions that hold a context: a token that does not start with -
BarePositions ==
  LET seg == OptionSegment IN { i \in OptionPositions : ~StartsWith(seg[i], s_dash) }

\* the words the parser knows
KnownFlags == { s_h, s_help, s_dry_run, s_push } \cup ValueFlags

\* -h or --help is given as an option
HelpFlagGiven == FlagPositions({s_h, s_help}) # {}

\* an option the parser does not know is given
UnknownOptionGiven ==
  LET seg == OptionSegment
  IN  \E i \in OptionPositions : StartsWith(seg[i], s_dash) /\ seg[i] \notin KnownFlags

\* a flag that takes a value ends the option segment
DanglingValueFlag ==
  LET seg == OptionSegment
  IN  /\ Len(seg) > 0
      /\ seg[Len(seg)] \in ValueFlags
      /\ Len(seg) \in OptionPositions

\* C13: when -h or --help is given before the separator and the option
\* segment parses, the script shows the help and exits with code 0; it never
\* checks the context, the Dockerfile or the option conflicts, and it prints
\* and runs no command. A parse error in the same arguments wins: exit code 1.
C13_HelpTakesPrecedence ==
  HelpFlagGiven =>
    /\ pc \in {"parse", "help", "exit"}
    /\ Parsed => options.help
    /\ ~Synthesized /\ stdout = <<>> /\ spawned = <<>>
    /\ (pc = "exit" /\ Parsed) =>
         /\ exitCode = 0
         /\ helpShown = 1
         /\ stderr = <<>>
    /\ (pc = "exit" /\ (UnknownOptionGiven \/ DanglingValueFlag)) =>
         /\ ParseFailed
         /\ exitCode = 1

\* help was shown although no context was given
C13_Witness ==
  /\ HelpFlagGiven
  /\ pc = "exit" /\ exitCode = 0 /\ helpShown = 1
  /\ options.context.isNull
  /\ options.push

\* help was asked for and an unknown option failed the parse
C13_WitnessParseError ==
  /\ HelpFlagGiven
  /\ UnknownOptionGiven
  /\ pc = "exit" /\ exitCode = 1

----------------------------------------------------------------------------
(* C14 *)

\* the messages of parseArgs
ParseTexts ==
  { "Option {0} requires a value", "Unknown option: {0}",
    "Multiple context paths specified: {0} and {1}" }

\* the messages of the checks after parsing
ValidationTexts ==
  { "Context path is required", "Context path does not exist: {0}",
    "Dockerfile not found: {0}",
    "Invalid build-arg format: {0}. Expected KEY=VALUE",
    "--push requires -t/--tag or --output in passthrough arguments",
    "Cannot specify both -t/--tag and name= in passthrough --output",
    "Cannot specify both --push and push= in passthrough --output" }

\* the messages that are followed by the help
TextsWithHelp == ParseTexts \cup { "Context path is required" }

\* C14: a parse error is written to stderr with the prefix `Error: ` and is
\* followed by the help; a validation error is written with the same prefix
\* and without the help, except `Context path is required`, which is followed
\* by the help; each of them ends the script with exit code 1, and the script
\* ends with code 1 before running buildctl only with one of these messages.
C14_ErrorReporting ==
  /\ \A i \in DOMAIN stderr :
       stderr[i].text \in ParseTexts \cup ValidationTexts =>
         /\ stderr[i].prefix = "Error: "
         /\ Len(stderr) = 1
         /\ pc = "exit"
         /\ exitCode = 1
         /\ helpShown = (IF stderr[i].text \in TextsWithHelp THEN 1 ELSE 0)
  /\ (pc = "exit" /\ exitCode = 1 /\ spawned = <<>>) =>
       /\ Len(stderr) = 1
       /\ stderr[1].text \in ParseTexts \cup ValidationTexts
  /\ (pc = "exit" /\ Parsed /\ options.context.isNull /\ ~options.help) =>
       stderr[1].text = "Context path is required"

\* a parse error, printed with the help
C14_Witness ==
  /\ ParseFailed
  /\ stderr[1].text = "Unknown option: {0}"
  /\ helpShown = 1

\* a validation error, printed without the help
C14_WitnessNoHelp ==
  /\ pc = "exit"
  /\ Len(stderr) = 1
  /\ stderr[1].text = "Context path does not exist: {0}"
  /\ helpShown = 0

\* the missing context, printed with the help
C14_WitnessContextRequired ==
  /\ pc = "exit"
  /\ Len(stderr) = 1
  /\ stderr[1].text = "Context path is required"
  /\ helpShown = 1

----------------------------------------------------------------------------
(* C15 *)

\* validation succeeded and the command is to be run, and the script is over
Executed == pc = "exit" /\ Synthesized /\ ~options.dryRun

\* the line printed when buildctl cannot be started
SpawnFailureLine ==
  [prefix |-> "Failed to execute buildctl: ", text |-> "{0}", args |-> <<>>]

\* buildctl was run once, with the synthesized tokens; a spawn failure is
\* reported and ends the script with exit code 1
SpawnedOnce ==
  /\ spawned = << Emitted >>
  /\ result.error => (stderr = << SpawnFailureLine >> /\ exitCode = 1)
  /\ ~result.error => stderr = <<>>

\* C15: when validation succeeds without --dry-run, buildctl is run exactly
\* once with exactly the synthesized tokens; the exit code of the script is
\* the exit status of buildctl however buildctl ends, so buildctl ending
\* without a numeric status never gives the exit code of a buildctl that
\* ended well; a spawn failure is reported and the exit code is 1.
C15_ExitCodeIsProcessStatus ==
  Executed =>
    /\ SpawnedOnce
    /\ ~result.error =>
         /\ ~result.status.isNull
         /\ exitCode = result.status.val

\* the same with the exit code of the script left open when buildctl ends
\* without a numeric status
C15_ExitCodeIsNumericStatus ==
  Executed =>
    /\ SpawnedOnce
    /\ (~result.error /\ ~result.status.isNull) => exitCode = result.status.val

\* buildctl ended with a status that is not 0 and the script exited with it
C15_WitnessStatus ==
  /\ Executed
  /\ ~result.error /\ ~result.status.isNull
  /\ result.status.val > 0
  /\ exitCode = result.status.val

----------------------------------------------------------------------------
(* C16 *)

\* the path names a directory
IsDirectory(p) == Len(p) > 0 /\ pathResolve(p) \in Dirs

\* the context check has been reached and the script is over
ContextChecked ==
  /\ pc = "exit"
  /\ Parsed
  /\ ~options.help
  /\ Truthy(options.context)

\* C16: a context that does not exist, or that exists and is not a directory
\* (a regular file), ends the script with `Error: Context path does not
\* exist: {context}` and exit code 1, before the Dockerfile is looked up and
\* before any command is synthesized.
C16_ContextMustBeDirectory ==
  (ContextChecked /\ ~IsDirectory(options.context.val)) =>
    /\ Rejected
    /\ ~Synthesized
    /\ helpShown = 0
    /\ stderr = << ErrorLine(Error("Context path does not exist: {0}",
                                   <<options.context.val>>)) >>

\* the same for a context that does not exist at all
C16_MissingContextRejected ==
  (ContextChecked /\ ~existsSync(options.context.val)) =>
    /\ Rejected
    /\ ~Synthesized
    /\ helpShown = 0
    /\ stderr = << ErrorLine(Error("Context path does not exist: {0}",
                                   <<options.context.val>>)) >>

\* a missing context was rejected although a Dockerfile that exists was named
C16_WitnessMissing ==
  /\ ContextChecked
  /\ ~existsSync(options.context.val)
  /\ ~options.dockerfile.isNull
  /\ existsSync(options.dockerfile.val)

----------------------------------------------------------------------------
(* C17 *)

\* KEY=VALUE with a key that is not empty
WellFormedBuildArg(entry) == Includes(entry, s_eq) /\ entry[1] # "="

\* positions of the build arguments that are not well formed
MalformedBuildArgs ==
  { i \in DOMAIN options.buildArgs : ~WellFormedBuildArg(options.buildArgs[i]) }

\* the build arguments have been reached: help, context and Dockerfile passed
BuildArgsChecked ==
  /\ ContextChecked
  /\ existsSync(options.context.val)
  /\ validateDockerfile(options.context.val, options.dockerfile).ok

\* C17: a --build-arg entry without `=`, or with an empty key such as
\* `=VALUE`, ends the script with `Error: Invalid build-arg format: {entry}.
\* Expected KEY=VALUE` for the first such entry and exit code 1, and no
\* `--opt build-arg:` token is emitted for it.
C17_MalformedBuildArgRejected ==
  (BuildArgsChecked /\ MalformedBuildArgs # {}) =>
    LET first == CHOOSE i \in MalformedBuildArgs : \A j \in MalformedBuildArgs : i <= j
    IN  /\ Rejected
        /\ ~Synthesized
        /\ stderr = << ErrorLine(Error("Invalid build-arg format: {0}. Expected KEY=VALUE",
                                       <<options.buildArgs[first]>>)) >>

\* the same for the entries without `=` only
C17_BuildArgWithoutEqRejected ==
  LET noEq == { i \in DOMAIN options.buildArgs : ~Includes(options.buildArgs[i], s_eq) }
  IN  (BuildArgsChecked /\ noEq # {}) =>
        LET first == CHOOSE i \in noEq : \A j \in noEq : i <= j
        IN  /\ Rejected
            /\ ~Synthesized
            /\ stderr = << ErrorLine(Error("Invalid build-arg format: {0}. Expected KEY=VALUE",
                                           <<options.buildArgs[first]>>)) >>

\* an entry without `=` was rejected after a well-formed one
C17_WitnessWithoutEq ==
  /\ BuildArgsChecked
  /\ Len(options.buildArgs) = 2
  /\ WellFormedBuildArg(options.buildArgs[1])
  /\ ~Includes(options.buildArgs[2], s_eq)

----------------------------------------------------------------------------
(* C18 *)

\* the token after the last of the given flags, Null if none is given
LastValueOf(flags) ==
  LET at == FlagPositions(flags)
  IN  IF at = {} THEN Null
      ELSE Some(OptionSegment[(CHOOSE i \in at : \A j \in at : j <= i) + 1])

\* the parse ended with the message that a flag has no value
RequiresValueReported ==
  /\ ParseFailed
  /\ stderr[1].text = "Option {0} requires a value"

\* C18: a flag that takes a value (-f, --file, --build-arg, -t, --tag) and is
\* the last token of the option segment fails the parse with `Option {flag}
\* requires a value`, and that message is printed for no other reason;
\* otherwise the token after the flag is its value, whatever it looks like:
\* it is recorded as the value and is read neither as a flag nor as a context
\* nor as an unknown option.
C18_ValueFlagsConsumeNextToken ==
  LET seg == OptionSegment
      bare == BarePositions
      buildArgAt == FlagPositions({s_build_arg})
      dangling == DanglingValueFlag
  IN
  /\ (pc = "exit" /\ dangling) =>
       /\ ParseFailed
       /\ (~UnknownOptionGiven /\ Cardinality(bare) <= 1) =>
            /\ RequiresValueReported
            /\ stderr[1].args = << seg[Len(seg)] >>
  /\ RequiresValueReported =>
       /\ dangling
       /\ stderr[1].args = << seg[Len(seg)] >>
  /\ (ParseFailed /\ stderr[1].text = "Unknown option: {0}") => UnknownOptionGiven
  /\ Parsed =>
       /\ ~dangling
       /\ options.dockerfile = LastValueOf({s_f, s_file})
       /\ options.tag = LastValueOf({s_t, s_tag})
       /\ Len(options.buildArgs) = Cardinality(buildArgAt)
       /\ \A i \in buildArgAt :
            options.buildArgs[Cardinality({ j \in buildArgAt : j <= i })] = seg[i + 1]
       /\ options.help = HelpFlagGiven
       /\ options.dryRun = (FlagPositions({s_dry_run}) # {})
       /\ options.push = (FlagPositions({s_push}) # {})
       /\ options.context.isNull = (bare = {})
       /\ ~options.context.isNull => \E i \in bare : seg[i] = options.context.val

\* -h was taken as the value of a tag flag: no help, and the build went on
C18_Witness ==
  /\ Parsed
  /\ options.tag = Some(s_h)
  /\ ~options.help
  /\ Synthesized

\* --file ended the option segment and failed the parse
C18_WitnessDangling ==
  /\ RequiresValueReported
  /\ stderr[1].args[1] = s_file

----------------------------------------------------------------------------
(* C19 *)

\* C19: a command line has no context or one. The first token of the option
\* segment that does not start with - and is not the value of a flag is the
\* context, and a second such token, whatever the two tokens are (the empty
\* string included), fails the parse with `Multiple context paths
\* specified` and never replaces the first.
C19_SecondContextRejected ==
  LET seg == OptionSegment
      bare == BarePositions
  IN
  /\ (Parsed /\ bare # {}) =>
       /\ Cardinality(bare) = 1
       /\ \A i \in bare : options.context = Some(seg[i])
  /\ (pc = "exit" /\ Cardinality(bare) >= 2) =>
       /\ ParseFailed
       /\ (~UnknownOptionGiven /\ ~DanglingValueFlag) =>
            stderr[1].text = "Multiple context paths specified: {0} and {1}"

\* the same when the first context is not the empty string
C19_SecondContextAfterNonEmpty ==
  LET seg == OptionSegment
      bare == BarePositions
      first == CHOOSE i \in bare : \A j \in bare : i <= j
  IN  (bare # {} /\ seg[first] # <<>>) =>
        /\ Parsed => options.context = Some(seg[first])
        /\ (pc = "exit" /\ Cardinality(bare) >= 2) =>
             /\ ParseFailed
             /\ (~UnknownOptionGiven /\ ~DanglingValueFlag) =>
                  stderr[1].text = "Multiple context paths specified: {0} and {1}"

\* a second context was rejected
C19_WitnessRejected ==
  /\ ParseFailed
  /\ stderr[1].text = "Multiple context paths specified: {0} and {1}"
  /\ stderr[1].args = << a_c, a_empty >>

----------------------------------------------------------------------------
(* C20 *)

\* the command line of test 8.3 of TESTS.md
TagWithNamedPassthroughOutput ==
  argv = << s_dry_run, s_t, a_myapp_latest, a_abs_c, s_dashdash, s_output,
            a_registry_override >>

\* C20: for -t myapp:latest with the passthrough --output
\* type=registry,name=override.com/image:v1,push=true the dry run exits with
\* code 0 and prints a command whose only output option is the one of the
\* passthrough; the value of -t is ignored.
C20_PassthroughOutputOverridesTag ==
  (TagWithNamedPassthroughOutput /\ pc = "exit") =>
    /\ exitCode = 0
    /\ stderr = <<>>
    /\ Synthesized
    /\ stdout = << s_buildctl_sp \o SpaceSeparated(Emitted) >>
    /\ SubSeq(Emitted, Len(Emitted) - 1, Len(Emitted)) = << s_output, a_registry_override >>
    /\ \A k \in 1..(Len(Emitted) - 2) : ~StartsWith(Emitted[k], s_output)
    /\ \A k \in DOMAIN Emitted : ~Includes(Emitted[k], a_myapp_latest)

\* what the script does with that command line
C20_TagWithNamedOutputRejected ==
  (TagWithNamedPassthroughOutput /\ pc = "exit") =>
    RejectedWith("Cannot specify both -t/--tag and name= in passthrough --output")

\* the same passthrough output without -t is printed as the only output
C20_WitnessWithoutTag ==
  /\ argv = << s_dry_run, a_abs_c, s_dashdash, s_output, a_registry_override >>
  /\ pc = "exit" /\ exitCode = 0
  /\ SubSeq(Emitted, Len(Emitted) - 1, Len(Emitted)) = << s_output, a_registry_override >>
  /\ \A k \in 1..(Len(Emitted) - 2) : ~StartsWith(Emitted[k], s_output)

----------------------------------------------------------------------------
(* C21 *)

\* the platform is one postinstall.js knows and its package is installed
SupportedInstall ==
  /\ getPlatformPackageName(host).ok
  /\ tree[SourceBinaryPath] = RegularFile

\* createBinaryLink has run to its end at least once and is not running
PostinstallOver == ipc = "done" /\ Len(ended) > 0

\* bin/buildctl and node_modules/.bin/buildctl are links to the platform
\* binary, the other node_modules/.bin entries are links to the local script
LinksCorrect(t) ==
  /\ t[binaryPath] = SymLink(SourceBinaryPath)
  /\ t[nodeModulesBinaryPath] = SymLink(SourceBinaryPath)
  /\ \A e \in PackageBin :
       e.binName # n_buildctl => t[nodeModulesBinPath(e.binName)] = SymLink(ScriptPath)

\* C21: after postinstall has run on a supported platform with the platform
\* package installed, bin/buildctl and node_modules/.bin/buildctl are
\* symlinks to the binary of the platform package and buildctl-dockerfile
\* and buildctl-d in node_modules/.bin are symlinks to the local script;
\* nothing is copied.
C21_LinksAfterPostinstall ==
  (PostinstallOver /\ SupportedInstall) => LinksCorrect(tree)

\* the same for the runs that end without a caught error
C21_LinksAfterRunWithoutError ==
  \A i \in DOMAIN ended : ended[i].outcome = "linked" => LinksCorrect(ended[i].tree)

\* a run on a supported platform has ended without an error
C21_WitnessLinked ==
  /\ PostinstallOver
  /\ SupportedInstall
  /\ ended[Len(ended)].outcome = "linked"

\* a run with the platform package installed has ended in the catch block
\* and bin/buildctl is still a dangling link
C21_WitnessDangling ==
  /\ PostinstallOver
  /\ SupportedInstall
  /\ ended[Len(ended)].outcome = "failed"
  /\ tree[binaryPath] = SymLink(GonePath)

----------------------------------------------------------------------------
(* C22 *)

\* the host has an entry in the table of the wrapper script
InTable == ~binPathOf(host).isNull

\* the packages publish.go writes for the host
PublishedFor(h) == { p \in PublishedPackages : p.os = h.platform /\ p.cpu = h.arch }

\* the table entry of the host lies in the package postinstall.js looks up
\* and publish.go writes for the host
NamesAgree(h) ==
  LET binPath == binPathOf(h).val
  IN  /\ getPlatformPackageName(h).ok
      /\ getPlatformPackageName(h).value = packageOf(binPath)
      /\ \E p \in PublishedFor(h) : p.name = packageOf(binPath)

\* C22: for every platform and arch of the PLATFORMS table of the wrapper
\* script, the package directory of the table entry is the package name
\* publish.go generates for the pair and the package name postinstall.js
\* looks up for the pair (pattern buildctl-{os}-{arch}).
C22_PackageNamesAgree == InTable => NamesAgree(host)

\* the same for the pairs other than linux/ppc64, with the whole path of the
\* table entry: package name of publish.go, "/", bin path of publish.go
C22_PackageNamesAgreeButPpc64 ==
  (InTable /\ host # [platform |-> p_linux, arch |-> c_ppc64]) =>
    /\ NamesAgree(host)
    /\ \E p \in PublishedFor(host) : binPathOf(host).val = p.name \o s_slash \o p.bin

\* publish.go and postinstall.js agree on every pair of the table, and
\* publish.go writes no package for a pair that is not in the table
C22_PublishMatchesPostinstall ==
  /\ InTable => \E p \in PublishedFor(host) : p.name = getPlatformPackageName(host).value
  /\ PublishedFor(host) # {} => InTable

\* the wrapper script has looked up linux/arm and found its binary
C22_WitnessArm ==
  /\ host = [platform |-> p_linux, arch |-> c_arm]
  /\ pc # "lookup"
  /\ InTable

\* the wrapper script has looked up linux/ppc64: its table names a package
\* that publish.go does not write
C22_WitnessPpc64 ==
  /\ host = [platform |-> p_linux, arch |-> c_ppc64]
  /\ pc # "lookup"
  /\ InTable
  /\ \A p \in PublishedPackages : p.name # packageOf(binPathOf(host).val)

----------------------------------------------------------------------------
(* C28 *)

\* nothing of the command line has been looked at
NothingParsed ==
  /\ options = InitialOptions
  /\ buildctlArgs = <<>>
  /\ helpShown = 0
  /\ stdout = <<>>
  /\ spawned = <<>>

\* C28: the platform lookup comes before the parsing of the arguments. On
\* a platform and arch without a table entry the script prints the lookup
\* failure and exits with code 1 before anything is parsed: no help, no dry
\* run, no command. On a pair with an entry the lookup leaves the arguments
\* and everything the token list is made from as they are.
C28_LookupBeforeParsing ==
  /\ [](pc = "lookup" => NothingParsed /\ stderr = <<>>)
  /\ []((pc # "lookup" /\ ~InTable) =>
          /\ pc = "exit"
          /\ exitCode = 1
          /\ stderr = <<NoBinaryLine(host)>>
          /\ NothingParsed)
  /\ [][(pc = "lookup" /\ InTable) =>
          /\ pc' = "parse"
          /\ UNCHANGED <<argv, scriptName, options, buildctlArgs, stdout, stderr,
                         helpShown, spawned, exitCode>>]_vars

\* the script was started with --dry-run on a host without a binary and is over
C28_WitnessUnsupported ==
  /\ ~InTable
  /\ pc = "exit"
  /\ \E i \in DOMAIN argv : argv[i] = s_dry_run
  /\ exitCode = 1

\* on a host with a binary, the command of a dry run has been printed
C28_WitnessSupported ==
  /\ InTable
  /\ host.platform = p_win32
  /\ pc = "exit"
  /\ Len(stdout) > 0
  /\ Len(buildctlArgs) > 0

----------------------------------------------------------------------------
(* C24 *)

\* the option a tag or --push conflicts with: a passthrough --output whose
\* value contains `key`
OutputValueWith(key) == \E i \in OutputFlags : HasValue(i) /\ Includes(OutputValue(i), key)

\* the problems of a parsed request, numbered in the order of the checks
Problem(k) ==
  CASE k = 1 -> ~Truthy(options.context)
    [] k = 2 -> ~IsDirectory(options.context.val)
    [] k = 3 -> ~existsSync(fullDockerfilePath(options.context.val, options.dockerfile))
    [] k = 4 -> MalformedBuildArgs # {}
    [] k = 5 -> options.push /\ ~Truthy(options.tag) /\ ~PassthroughHasOutput
    [] k = 6 -> Truthy(options.tag) /\ OutputValueWith(s_name_eq)
    [] k = 7 -> options.push /\ OutputValueWith(s_push_eq)

\* the build arguments without `=`
WithoutEq == { i \in DOMAIN options.buildArgs : ~Includes(options.buildArgs[i], s_eq) }

\* the problems as the script tests for them: a context that does not exist
\* at all, a build argument without `=`, a conflict the script sees
Detected(k) ==
  CASE k = 2 -> ~existsSync(options.context.val)
    [] k = 4 -> WithoutEq # {}
    [] k = 6 -> /\ Truthy(options.tag) /\ PassthroughHasOutput
                /\ outputWithName(Passthrough)
    [] k = 7 -> /\ options.push /\ PassthroughHasOutput
                /\ outputWithPush(Passthrough)
    [] OTHER -> Problem(k)

\* the message of problem k; bad are the build arguments that are held to be invalid
ProblemLine(k, bad) ==
  CASE k = 1 -> ErrorLine(Error("Context path is required", <<>>))
    [] k = 2 -> ErrorLine(Error("Context path does not exist: {0}", <<options.context.val>>))
    [] k = 3 -> ErrorLine(Error("Dockerfile not found: {0}",
                  <<fullDockerfilePath(options.context.val, options.dockerfile)>>))
    [] k = 4 -> LET first == CHOOSE i \in bad : \A j \in bad : i <= j
                IN  ErrorLine(Error("Invalid build-arg format: {0}. Expected KEY=VALUE",
                                    <<options.buildArgs[first]>>))
    [] k = 5 -> ErrorLine(Error("--push requires -t/--tag or --output in passthrough arguments", <<>>))
    [] k = 6 -> ErrorLine(Error("Cannot specify both -t/--tag and name= in passthrough --output", <<>>))
    [] k = 7 -> ErrorLine(Error("Cannot specify both --push and push= in passthrough --output", <<>>))

\* the script is over, the arguments were parsed and help was not asked for
Validated == pc = "exit" /\ Parsed /\ ~options.help

\* the smallest number of a set of problems
Earliest(ks) == CHOOSE k \in ks : \A j \in ks : k <= j

\* C24: the checks run in a fixed order and stop at the first failure. A
\* parse error is the only message of its run; with help nothing is
\* checked; otherwise, when a request has several problems, the one message
\* reported is that of the earliest in the order: context required, context
\* does not exist, Dockerfile not found, invalid build-arg format, --push
\* without tag or output, tag with name=, --push with push=.
C24_EarliestProblemReported ==
  LET present == { k \in 1..7 : Problem(k) }
  IN  /\ (pc = "exit" /\ Parsed /\ options.help) => (stderr = <<>> /\ exitCode = 0)
      /\ (Validated /\ present # {}) =>
            /\ Rejected
            /\ ~Synthesized
            /\ stderr = << ProblemLine(Earliest(present), MalformedBuildArgs) >>

\* the same with the problems as the script tests for them; and without
\* one of them no error is reported
C24_EarliestDetectedReported ==
  LET present == { k \in 1..7 : Detected(k) }
  IN  /\ (pc = "exit" /\ Parsed /\ options.help) => (stderr = <<>> /\ exitCode = 0)
      /\ (Validated /\ present # {}) =>
            /\ Rejected
            /\ ~Synthesized
            /\ stderr = << ProblemLine(Earliest(present), WithoutEq) >>
      /\ (Validated /\ present = {}) =>
            \A i \in DOMAIN stderr : stderr[i].prefix # "Error: "

\* a request with two problems was rejected with the message of the first:
\* the Dockerfile is missing and --push has no target
C24_WitnessTwoProblems ==
  /\ Validated
  /\ Problem(3) /\ Problem(5)
  /\ ~Problem(1) /\ ~Problem(2)
  /\ stderr = << ProblemLine(3, {}) >>

\* a build argument with an empty key and --push without a target: the
\* later problem is the one reported
C24_WitnessLaterReported ==
  /\ Validated
  /\ Problem(4) /\ Problem(5)
  /\ ~Problem(1) /\ ~Problem(2) /\ ~Problem(3)
  /\ stderr = << ProblemLine(5, {}) >>

----------------------------------------------------------------------------
(* C25 *)

\* a Dockerfile path was given with -f/--file (an empty value counts as none)
ExplicitDockerfile == Truthy(options.dockerfile)

\* the path the Dockerfile is expected at: the path given if it is absolute,
\* the path given taken from the working directory if it is relative, and
\* Dockerfile in the context directory if none is given
ExpectedDockerfile ==
  IF ExplicitDockerfile
  THEN IF options.dockerfile.val[1] = "/" THEN options.dockerfile.val
       ELSE pathResolve(Cwd \o s_slash \o options.dockerfile.val)
  ELSE pathResolve(options.context.val) \o s_slash \o s_Dockerfile

\* the Dockerfile has been looked up: help, context required and context
\* exists are passed, and the script is over
DockerfileChecked == ContextChecked /\ existsSync(options.context.val)

C25_WitnessMissing ==
  /\ DockerfileChecked
  /\ options.dockerfile = Some(a_f_dotdot_missing)
  /\ stderr = << ErrorLine(Error("Dockerfile not found: {0}", <<a_f_dotdot_missing>>)) >>

\* without -f the Dockerfile of the context is used
C25_WitnessDefault ==
  /\ DockerfileChecked
  /\ Synthesized
  /\ options.dockerfile.isNull
  /\ options.context = Some(a_c)
  /\ Emitted[7] = s_dockerfile_eq \o a_abs_c

----------------------------------------------------------------------------
(* C26 *)

\* the words that name the subcommand
SubcommandWords == { s_dockerfile, s_d }

\* the arguments as they were given, up to the first separator
RawSegment ==
  LET seps == { i \in DOMAIN argv : argv[i] = s_dashdash }
  IN  IF seps = {} THEN argv
      ELSE SubSeq(argv, 1, (CHOOSE i \in seps : \A j \in seps : i <= j) - 1)

\* positions of the arguments as given that are neither an option nor the
\* value of one
RawBarePositions ==
  LET seg == RawSegment
      consumed == ConsumedFrom(seg, 1)
  IN  { i \in DOMAIN seg \ consumed : ~StartsWith(seg[i], s_dash) }

\* the first argument is exactly a subcommand word
SubcommandGiven == Len(argv) > 0 /\ argv[1] \in SubcommandWords

\* C26: the first argument is removed before parsing iff it is exactly
\* `dockerfile` or `d`. It is then never the context: the context of a
\* parsed request is the last positional token, the first argument left
\* out iff it is a subcommand word, and a lone `dockerfile` or `d` ends with
\* `Context path is required`. The same word at a later position is a
\* positional token like any other.
C26_SubcommandWordRemoved ==
  LET bare == RawBarePositions
      contexts == IF SubcommandGiven THEN bare \ {1} ELSE bare
  IN  /\ Parsed =>
            IF contexts = {} THEN options.context.isNull
            ELSE options.context =
                   Some(argv[CHOOSE i \in contexts : \A j \in contexts : j <= i])
      /\ (pc = "exit" /\ Len(argv) = 1 /\ SubcommandGiven) =>
            RejectedWith("Context path is required")

\* a lone `dockerfile` was rejected: no context
C26_Witness ==
  /\ argv = <<s_dockerfile>>
  /\ RejectedWith("Context path is required")

\* `d d` was parsed: the second d is the context
C26_WitnessLater ==
  /\ argv = <<s_d, s_d>>
  /\ Parsed
  /\ options.context = Some(s_d)

\* a first word that only starts like the subcommand is the context
C26_WitnessNearMiss ==
  /\ argv = <<a_dd, s_dry_run>>
  /\ Parsed
  /\ options.context = Some(a_dd)

----------------------------------------------------------------------------
(* C27 *)

\* neither the name of the script nor a raw argument names the dockerfile command
RawCondition ==
  /\ ~Includes(scriptName, s_dockerfile)
  /\ ~Includes(scriptName, s_buildctl_d)
  /\ \A i \in DOMAIN argv : argv[i] \notin SubcommandWords

\* buildctl was run with the arguments as they were given, nothing synthesized
RawBranchTaken ==
  /\ pc = "exit"
  /\ spawned = << argv >>
  /\ ~Synthesized

\* C27: the raw passthrough branch is taken exactly when the base name of
\* the script contains neither `dockerfile` nor `buildctl-d` and no raw
\* argument is `dockerfile` or `d`. Once the context-required and
\* context-exists checks have passed, buildctl is then run with the
\* arguments as given and the script exits with its status: no Dockerfile,
\* build-arg or conflict check, nothing printed, --dry-run included. Under
\* the shipped names the branch is never taken.
C27_RawPassthrough ==
  /\ DockerfileChecked => (RawCondition <=> RawBranchTaken)
  /\ RawBranchTaken =>
       /\ DockerfileChecked
       /\ stdout = <<>>
       /\ \A i \in DOMAIN stderr : stderr[i].prefix # "Error: "
       /\ (~result.error /\ ~result.status.isNull) => exitCode = result.status.val
  /\ scriptName \in ShippedNames =>
       /\ ~RawCondition
       /\ spawned # <<>> => Synthesized

\* the script, copied as buildctl, ran buildctl for a dry-run request whose
\* Dockerfile does not exist, and exited with its status
C27_Witness ==
  /\ RawBranchTaken
  /\ options.dryRun
  /\ ~existsSync(ExpectedDockerfile)
  /\ ~result.error /\ ~result.status.isNull
  /\ result.status.val > 0
  /\ exitCode = result.status.val

\* the script, copied as buildctl, took the dockerfile command for an
\* argument d given after the context
C27_WitnessArgument ==
  /\ scriptName = n_buildctl
  /\ Synthesized
  /\ Len(argv) > 1 /\ argv[1] \notin SubcommandWords
  /\ \E i \in DOMAIN argv : argv[i] = s_d

----------------------------------------------------------------------------
(* C29 *)

\* positions of the passthrough that hold the value of an --output option:
\* the token after --output, or the --output=VALUE token itself
OutputValuePositions ==
  { i + 1 : i \in { j \in OutputFlags : TwoTokenForm(j) /\ HasValue(j) } }
    \cup { i \in OutputFlags : ~TwoTokenForm(i) }

\* the number of tokens emitted before the passthrough: the seven base
\* tokens, the filename option, the build arguments, the generated output
EmittedHeadLen ==
  7 + (IF ResolvedBaseName # s_Dockerfile THEN 2 ELSE 0)
    + 2 * Len(options.buildArgs)
    + (IF PassthroughHasOutput THEN 0 ELSE 2)

\* C29: the push rewrite changes nothing but output values. The emitted
\* passthrough has as many tokens as the passthrough given; every token that
\* is not the value of an --output option is the same token at the same
\* position; an output value is emitted as given or with one `,push=true`
\* appended, never more; and without --push the passthrough is emitted
\* token for token as given.
C29_PushRewriteFrame ==
  Synthesized =>
    LET values == OutputValuePositions
        emitted == EmittedPassthrough
    IN  /\ Len(Emitted) = EmittedHeadLen + Len(Passthrough)
        /\ \A i \in DOMAIN Passthrough \ values : emitted[i] = Passthrough[i]
        /\ \A i \in values :
             \/ emitted[i] = Passthrough[i]
             \/ /\ emitted[i] = Passthrough[i] \o s_comma_push_true
                /\ options.push
                /\ ~Includes(Passthrough[i], s_comma_push_true)
        /\ ~options.push => emitted = Passthrough

\* --push rewrote the value of an output and left the token after it as it was
C29_Witness ==
  /\ Synthesized /\ options.push
  /\ \E i \in OutputValuePositions :
       EmittedPassthrough[i] = Passthrough[i] \o s_comma_push_true
  /\ \E i \in DOMAIN Passthrough \ OutputValuePositions :
       i > 1 /\ Passthrough[i] = a_no_cache

\* --push rewrote the value of one output and left one that has push= as it was
C29_WitnessKept ==
  /\ Synthesized /\ options.push
  /\ \E i \in OutputValuePositions :
       EmittedPassthrough[i] = Passthrough[i] \o s_comma_push_true
  /\ \E i \in OutputValuePositions :
       Includes(Passthrough[i], s_push_eq) /\ EmittedPassthrough[i] = Passthrough[i]

\* without --push a passthrough with two outputs was emitted as given
C29_WitnessWithoutPush ==
  /\ Synthesized /\ ~options.push
  /\ Cardinality(OutputValuePositions) = 2
  /\ EmittedPassthrough = Passthrough

----------------------------------------------------------------------------
(* C30 *)

\* a link whose target does not exist is at path p
Dangling(t, p) == nodeAt(t, p).kind = "link" /\ ~existsSyncIn(t, p)

\* C30: whatever was at bin/buildctl and at the node_modules/.bin entries
\* before (nothing, a regular file, a valid symlink, a dangling symlink), a
\* run of createBinaryLink with the platform package installed ends with the
\* correct links, and a second run leaves them as they are.
C30_LinkStepSelfRepairing ==
  SupportedInstall =>
    /\ \A i \in DOMAIN ended :
         /\ ended[i].outcome = "linked"
         /\ LinksCorrect(ended[i].tree)
    /\ Len(ended) = 2 => ended[2].tree = ended[1].tree

\* what holds of it: a run that ends without a caught error is followed by
\* runs that end in the same way with the same links; and a run ends in the
\* catch block only with a dangling link left at one of the link paths
C30_RepairsAllButDanglingLinks ==
  SupportedInstall =>
    /\ (Len(ended) = 2 /\ ended[1].outcome = "linked") => ended[2] = ended[1]
    /\ \A i \in DOMAIN ended :
         /\ ended[i].outcome \in { "linked", "failed" }
         /\ ended[i].outcome = "failed" =>
              \E p \in LinkPaths : Dangling(ended[i].tree, p)

\* two runs have ended with the correct links
C30_WitnessTwice ==
  /\ SupportedInstall
  /\ Len(ended) = 2
  /\ ended[1].outcome = "linked"
  /\ ended[2] = ended[1]

\* two runs have ended in the catch block: the dangling bin/buildctl is not repaired
C30_WitnessNotRepaired ==
  /\ SupportedInstall
  /\ Len(ended) = 2
  /\ ended[1].outcome = "failed" /\ ended[2].outcome = "failed"
  /\ Dangling(tree, binaryPath)

====
